---- MODULE Spec2Model ----
(***************************************************************************)
(* HydraDB: a Bitcask-style key-value store (core/src/hydradb.rs).         *)
(*                                                                         *)
(* The cask directory is modelled byte for byte: every data file and the   *)
(* hint file is a sequence of bytes, records are encoded by to_db_entry /  *)
(* to_hint_entry and decoded by the iterators and the restorers exactly as *)
(* the source does it, and a get is a positional read of val_sz bytes at   *)
(* val_pos through the read-handle cache.                                  *)
(***************************************************************************)
EXTENDS Integers, Sequences, FiniteSets, TLC

(***************************************************************************)
(* Bounds of the model                                                     *)
(***************************************************************************)
\* keys are the byte strings KeyBytes(1) .. KeyBytes(NumKeys)
NumKeys == 2
\* values are the byte strings ValBytes(1) .. ValBytes(NumVals)
NumVals == 2
\* number of records (puts and tombstones) appended in one behaviour
MaxWrites == 4
\* the same, for the one-record-per-file specification SpecRotateAll
MaxRotateAllWrites == 5
\* the same, for the 24-byte-record specification SpecSplit
MaxSplitWrites == 4
\* SpecSplit's keys are NumSplitKeys four-byte strings
NumSplitKeys == 3
\* number of merges in one behaviour
MaxMerges == 2
\* number of close/reopen cycles in one behaviour
MaxOpens == 1
\* records appended in one behaviour of SpecMerge
MaxMergeWrites == 3
\* merges started in one behaviour of SpecMerge
MaxStepMerges == 1
\* threads that call get, put and del in SpecThreads, and get in SpecReaders
NumCallers == 2
\* records appended in one behaviour of SpecThreads
MaxThreadWrites == 2
\* records appended in one behaviour of SpecReaders
MaxReaderWrites == 3
\* records appended in one behaviour of SpecFaults
MaxFaultWrites == 3
\* flushes that fail in one behaviour of SpecFaults
MaxFaults == 1
\* longer than any file of the model
MaxVecLen == 32768
\* records appended in one behaviour of SpecMergeRace
MaxRaceWrites == 3
\* records appended in one behaviour of SpecBig
MaxBigWrites == 2
\* records appended in one behaviour of SpecRotateFail
MaxRotateFailWrites == 3
\* rotations that fail in one behaviour of SpecRotateFail
MaxRotateFails == 1

(***************************************************************************)
(* Program constants                                                       *)
(***************************************************************************)
\* crc + tstamp + ksz + vsz, 4 bytes each
HeaderSize == 16
\* tstamp + ksz + vsz (4 bytes each) + val_pos (8 bytes)
HintHeaderSize == 20
\* b"TOMBSTONE"
TOMBSTONE == <<84, 79, 77, 66, 83, 84, 79, 78, 69>>

\* the file-size thresholds an engine is built with: every write rotates (1),
\* two small records per file (40), HydraDBBuilder's default
Thresholds == {1, 40, 1048576}

VARIABLES
  files,                    \* numeric file name -> bytes of that data file
  hint,                     \* the file "hint": [exists, bytes]
  temp,                     \* the file "temp": [exists, bytes]
  cur_id,                   \* HydraDB.cur_id
  key_dir,                  \* HydraDB.key_dir: key bytes -> KeyDirEntry
  max_file_size_threshold,  \* HydraDB.max_file_size_threshold
  writer,                   \* WriterState: [last_val_offset, cur_file_size]
  file_cache,               \* HydraDB.file_cache: file id -> read handle
  clock,                    \* wall clock in ms; one tick per appended record
  shadow,                   \* reference map: what an in-memory map holds
  last,                     \* the last operation and what it returned
  puts_only,                \* every operation so far was a put or a get
  merges,                   \* merges so far
  opens,                    \* reopens so far
  threads,                  \* per thread: the call it is in and its locals
  mutex,                    \* holder of the Mutex around WriterState, 0 if free
  buffered,                 \* WriterState.writer: bytes the BufWriter holds
  merger,                   \* the locals of the merge() call in progress
  lock_order,               \* the writes in the order they took the mutex
  crash_info                \* what the process was doing when it last stopped

\* the state of calls in progress; the single-threaded steps leave it alone
thread_vars == <<threads, mutex, buffered, merger, lock_order, crash_info>>

vars ==
  <<files, hint, temp, cur_id, key_dir, max_file_size_threshold, writer,
    file_cache, clock, shadow, last, puts_only, merges, opens,
    threads, mutex, buffered, merger, lock_order, crash_info>>

(***************************************************************************)
(* Bytes                                                                   *)
(***************************************************************************)
KeyBytes(i) == [j \in 1..i |-> i]

ValBytes(i) == [j \in 1..i |-> 100 + i]

Keys == {KeyBytes(i) : i \in 1..NumKeys}

\* the keys of SpecRotateAll: one more
MoreKeys == {KeyBytes(i) : i \in 1..(NumKeys + 1)}

Vals == {ValBytes(i) : i \in 1..NumVals}

Min(a, b) == IF a < b THEN a ELSE b

\* u32::to_be_bytes
BE32(n) ==
  <<(n \div 16777216) % 256, (n \div 65536) % 256, (n \div 256) % 256, n % 256>>

\* u64::to_be_bytes (the model's offsets fit the low four bytes)
BE64(n) == <<0, 0, 0, 0>> \o BE32(n)

\* u32::from_be_bytes(buf[i..=i+3]), i counted from 0
U32At(buf, i) ==
  buf[i + 1] * 16777216 + buf[i + 2] * 65536 + buf[i + 3] * 256 + buf[i + 4]

\* u64::from_be_bytes(buf[i..=i+7]), i counted from 0
U64At(buf, i) == U32At(buf, i + 4)

\* the n bytes of b at offset off (counted from 0)
Slice(b, off, n) == SubSeq(b, off + 1, off + n)

RECURSIVE SumBytes(_)
SumBytes(b) ==
  IF b = <<>> THEN 0
  ELSE IF Len(b) = 1 THEN b[1]
  ELSE LET h == Len(b) \div 2
       IN SumBytes(SubSeq(b, 1, h)) + SumBytes(SubSeq(b, h + 1, Len(b)))

\* a digest of tstamp, ksz, vsz, key and value, in the order calc_crc hashes them
calc_crc(tstamp, key_sz, val_sz, k, v) ==
  (SumBytes(BE32(tstamp)) + 2 * SumBytes(BE32(key_sz)) + 3 * SumBytes(BE32(val_sz))
     + 5 * SumBytes(k) + 7 * SumBytes(v)) % 128

\* crc + tstamp + ksz + vsz + key + val
to_db_entry(crc, tstamp, k, v) ==
  BE32(crc) \o BE32(tstamp) \o BE32(Len(k)) \o BE32(Len(v)) \o k \o v

\* tstamp + ksz + vsz + val_pos + key
to_hint_entry(tstamp, k, v, val_pos) ==
  BE32(tstamp) \o BE32(Len(k)) \o BE32(Len(v)) \o BE64(val_pos) \o k

(***************************************************************************)
(* Key directory                                                           *)
(***************************************************************************)
KeyDirEntry(file_id, val_sz, val_pos, tstamp) ==
  [file_id |-> file_id, val_sz |-> val_sz, val_pos |-> val_pos, tstamp |-> tstamp]

EmptyKeyDir == [k \in {} |-> KeyDirEntry(0, 0, 0, 0)]

KeyDirPut(kd, k, e) == [x \in DOMAIN kd \cup {k} |-> IF x = k THEN e ELSE kd[x]]

KeyDirDel(kd, k) == [x \in DOMAIN kd \ {k} |-> kd[x]]

KeyDirHasKey(kd, k) == k \in DOMAIN kd

\* KeyDir::keys: None when empty, else the keys
KeyDirKeys(kd) ==
  IF DOMAIN kd = {} THEN [some |-> FALSE, keys |-> {}]
  ELSE [some |-> TRUE, keys |-> DOMAIN kd]

(***************************************************************************)
(* Files                                                                   *)
(***************************************************************************)
NoFile == [exists |-> FALSE, bytes |-> <<>>]

File(b) == [exists |-> TRUE, bytes |-> b]

\* a read handle either follows the file currently carrying the name it was
\* opened under, or holds the bytes of a file that was unlinked or replaced
\* after the handle was opened
LiveHandle == [orphan |-> FALSE, bytes |-> <<>>]

OrphanHandle(b) == [orphan |-> TRUE, bytes |-> b]

EmptyCache == [f \in {} |-> LiveHandle]

\* File::options().create(true).append(true).open(name), then write_all + flush
AppendTo(fs, id, b) ==
  [f \in DOMAIN fs \cup {id} |-> IF f = id THEN (IF id \in DOMAIN fs THEN fs[id] ELSE <<>>) \o b ELSE fs[f]]

\* mutant: the directory scan keeps the lowest numeric file name
SetMaxLowest(S) ==
  IF S = {} THEN 0 ELSE CHOOSE x \in S : \A y \in S : x <= y

RECURSIVE SetMax(_)
\* mx = max(mx, name) over the numeric file names, from 0
SetMax(S) ==
  IF S = {} THEN 0
  ELSE LET x == CHOOSE y \in S : TRUE
           m == SetMax(S \ {x})
       IN IF x > m THEN x ELSE m

RECURSIVE SortedSeq(_)
\* Vec::sort of the numeric file names
SortedSeq(S) ==
  IF S = {} THEN <<>>
  ELSE LET m == CHOOSE x \in S : \A y \in S : x <= y
       IN <<m>> \o SortedSeq(S \ {m})

(***************************************************************************)
(* Data file iterators                                                     *)
(***************************************************************************)
\* reader.read(&mut buf): the bytes read overwrite the front of buf, whatever
\* was there before stays behind them
ReadInto(buf, bytes, pos, size) ==
  [i \in 1..Len(buf) |-> IF i <= size THEN bytes[pos + i] ELSE buf[i]]

ZeroBuf(n) == [i \in 1..n |-> 0]

\* the capacity BufReader::new gives its buffer
BufReaderCapacity == 8192

\* how many bytes one reader.read(&mut buf) with an n-byte buf returns at
\* offset pos: BufReader hands out what is left in its buffer, which it
\* refills, BufReaderCapacity bytes at a time, only once it is empty
HeaderRead(bytes, pos, n) ==
  Min(n, Min(Len(bytes) - pos, BufReaderCapacity - (pos % BufReaderCapacity)))

ErrItem == [ok |-> FALSE]

RECURSIVE DataFileIter(_, _, _)
\* DataFileIterator::next called until it returns None: the items it yields,
\* reading `bytes` from offset pos with the header buffer buf
DataFileIter(bytes, pos, buf) ==
  LET size == HeaderRead(bytes, pos, HeaderSize)
      nbuf == ReadInto(buf, bytes, pos, size)
      crc == U32At(nbuf, 0)
      tstamp == U32At(nbuf, 4)
      ksz == U32At(nbuf, 8)
      vsz == U32At(nbuf, 12)
      val_pos == pos + size + ksz
  IN IF size = 0 THEN <<>>
     ELSE IF val_pos > Len(bytes) THEN <<ErrItem>>
     ELSE IF val_pos + vsz > Len(bytes) THEN <<ErrItem>>
     ELSE <<[ok |-> TRUE, crc |-> crc, tstamp |-> tstamp, ksz |-> ksz, vsz |-> vsz,
             key |-> Slice(bytes, pos + size, ksz), val |-> Slice(bytes, val_pos, vsz),
             val_pos |-> val_pos]>>
          \o DataFileIter(bytes, val_pos + vsz, nbuf)

\* DataFileEntry::new
NewDataFileEntry ==
  [crc |-> 0, tstamp |-> 0, ksz |-> 0, vsz |-> 0, key |-> <<>>, val |-> <<>>, val_pos |-> 0]

\* Vec::resize(n, 0) followed by a read of the bytes that are there; a vector
\* resized past the end of every file is zero from MaxVecLen on and is kept
\* to that length
ResizeRead(old, n, bytes, pos) ==
  [i \in 1..Min(n, MaxVecLen) |-> IF pos + i <= Len(bytes) THEN bytes[pos + i]
                  ELSE IF i <= Len(old) THEN old[i] ELSE 0]

RECURSIVE OptimizedDataFileIter(_, _, _, _)
\* OptimizedDataFileIterator::next_into called until it returns None: the
\* contents of the caller's entry after each call (also after a call that
\* returned Some(Err), which leaves the entry partly overwritten)
OptimizedDataFileIter(bytes, pos, buf, entry) ==
  LET size == HeaderRead(bytes, pos, HeaderSize)
      nbuf == ReadInto(buf, bytes, pos, size)
      ksz == U32At(nbuf, 8)
      vsz == U32At(nbuf, 12)
      val_pos == pos + size + ksz
      e1 == [entry EXCEPT !.crc = U32At(nbuf, 0), !.tstamp = U32At(nbuf, 4),
                          !.ksz = ksz, !.vsz = vsz]
      e2 == [e1 EXCEPT !.key = ResizeRead(entry.key, ksz, bytes, pos + size)]
      e3 == [e2 EXCEPT !.val_pos = val_pos,
                       !.val = ResizeRead(entry.val, vsz, bytes, val_pos)]
  IN IF size = 0 THEN <<>>
     ELSE IF val_pos > Len(bytes) THEN <<e2>>
     ELSE IF val_pos + vsz > Len(bytes) THEN <<e3>>
     ELSE <<e3>> \o OptimizedDataFileIter(bytes, val_pos + vsz, nbuf, e3)

(***************************************************************************)
(* Recovery                                                                *)
(***************************************************************************)
RECURSIVE RestoreEntries(_, _, _, _)
\* the loop of DataFileRestore::restore over the iterator's items
RestoreEntries(kd, items, i, active_file_num) ==
  IF i > Len(items) THEN kd
  ELSE IF items[i].ok
    THEN RestoreEntries(
           KeyDirPut(kd, items[i].key,
                     KeyDirEntry(active_file_num, items[i].vsz, items[i].val_pos,
                                 items[i].tstamp)),
           items, i + 1, active_file_num)
    ELSE RestoreEntries(kd, items, i + 1, active_file_num)

DataFileRestore(fs, active_file_num, kd) ==
  IF active_file_num \notin DOMAIN fs THEN kd
  ELSE RestoreEntries(kd, DataFileIter(fs[active_file_num], 0, ZeroBuf(HeaderSize)),
                      1, active_file_num)

RECURSIVE HintReplay(_, _, _, _, _)
\* step 1 of HintFileRestore::restore: [ok, kd]; ok is FALSE when read_exact
\* of a key failed and the restore returned early
HintReplay(kd, bytes, pos, buf, active_file_num) ==
  LET size == HeaderRead(bytes, pos, HintHeaderSize)
      nbuf == ReadInto(buf, bytes, pos, size)
      tstamp == U32At(nbuf, 0)
      ksz == U32At(nbuf, 4)
      vsz == U32At(nbuf, 8)
      val_pos == U64At(nbuf, 12)
      kpos == pos + size
  IN IF size = 0 THEN [ok |-> TRUE, kd |-> kd]
     ELSE IF kpos + ksz > Len(bytes) THEN [ok |-> FALSE, kd |-> kd]
     ELSE HintReplay(
            KeyDirPut(kd, Slice(bytes, kpos, ksz),
                      KeyDirEntry(active_file_num - 1, vsz, val_pos, tstamp)),
            bytes, kpos + ksz, nbuf, active_file_num)

RECURSIVE ActiveReplay(_, _, _, _, _)
\* step 2 of HintFileRestore::restore: the records of the active file
ActiveReplay(kd, bytes, pos, buf, active_file_num) ==
  LET size == HeaderRead(bytes, pos, HeaderSize)
      nbuf == ReadInto(buf, bytes, pos, size)
      tstamp == U32At(nbuf, 4)
      ksz == U32At(nbuf, 8)
      vsz == U32At(nbuf, 12)
      val_pos == pos + size + ksz
      key == Slice(bytes, pos + size, ksz)
      val == Slice(bytes, val_pos, vsz)
  IN IF size = 0 THEN kd
     ELSE IF val_pos > Len(bytes) THEN kd
     ELSE IF val_pos + vsz > Len(bytes) THEN kd
     ELSE ActiveReplay(
            IF val = TOMBSTONE THEN KeyDirDel(kd, key)
            ELSE KeyDirPut(kd, key, KeyDirEntry(active_file_num, vsz, val_pos, tstamp)),
            bytes, val_pos + vsz, nbuf, active_file_num)

HintFileRestore(fs, h, active_file_num, kd) ==
  LET r == HintReplay(kd, h.bytes, 0, ZeroBuf(HintHeaderSize), active_file_num)
  IN IF ~r.ok \/ active_file_num \notin DOMAIN fs THEN r.kd
     ELSE ActiveReplay(r.kd, fs[active_file_num], 0, ZeroBuf(HeaderSize), active_file_num)

\* HydraDB::build_key_dir on the cask (fs, h) with active id id
build_key_dir(fs, h, id) ==
  IF h.exists THEN HintFileRestore(fs, h, id, EmptyKeyDir)
  ELSE DataFileRestore(fs, id, EmptyKeyDir)

(***************************************************************************)
(* Writer                                                                  *)
(***************************************************************************)
\* mutant: the size check looks at the length already written only
ShouldRotateAfterWrite(k, v, w, threshold) == w.cur_file_size >= threshold

\* mutant: the size check is a strict comparison
ShouldRotateStrict(k, v, w, threshold) ==
  HeaderSize + Len(k) + Len(v) + w.cur_file_size > threshold

\* the size check at the head of put_with_file_size_check
ShouldRotate(k, v, w, threshold) ==
  HeaderSize + Len(k) + Len(v) + w.cur_file_size >= threshold

\* mutant: the rotation keeps the running offset of the file it leaves
RotatedWriterStaleOffset ==
  [last_val_offset |-> writer.last_val_offset, cur_file_size |-> 0]

\* WriterState after the rotation branch replaced it
RotatedWriter == [last_val_offset |-> 0, cur_file_size |-> 0]

\* mutant: the offset handed out is that of the key, not of the value
PutValPosAtKey(w, k) == w.last_val_offset + HeaderSize

\* let val_pos = writer.last_val_offset + 16 + ksz
PutValPos(w, k) == w.last_val_offset + HeaderSize + Len(k)

\* the file the writer's BufWriter is open on: the last one new() or a
\* rotation opened, which is the highest numeric file name there is
WriterFile ==
  IF DOMAIN files = {} THEN cur_id
  ELSE CHOOSE f \in DOMAIN files : \A g \in DOMAIN files : g <= f

\* put_with_file_size_check(k, v) at wall-clock time tstamp: the data files,
\* active id and writer state it leaves, and the entry it returns
put_with_file_size_check(k, v, tstamp) ==
  LET rotate == ShouldRotate(k, v, writer, max_file_size_threshold)
      file_id == IF rotate THEN cur_id + 1 ELSE cur_id
      w == IF rotate THEN RotatedWriter ELSE writer
      ksz == Len(k)
      vsz == Len(v)
      val_pos == PutValPos(w, k)
      crc == calc_crc(tstamp, ksz, vsz, k, v)
      entry == to_db_entry(crc, tstamp, k, v)
  IN [files |-> AppendTo(files, IF rotate THEN file_id ELSE WriterFile, entry),
      cur_id |-> file_id,
      writer |-> [last_val_offset |-> w.last_val_offset + HeaderSize + ksz + vsz,
                  cur_file_size |-> w.cur_file_size + HeaderSize + Len(k) + Len(v)],
      entry |-> KeyDirEntry(file_id, vsz, val_pos, tstamp),
      bytes |-> entry]

(***************************************************************************)
(* Reader                                                                  *)
(***************************************************************************)
None == [kind |-> "none", val |-> <<>>]

Some(v) == [kind |-> "some", val |-> v]

Err == [kind |-> "err", val |-> <<>>]

\* the bytes behind the handle get uses for file_id: the cached handle when
\* there is one, else a handle opened now
HandleBytes(cache, fs, file_id) ==
  IF file_id \in DOMAIN cache /\ cache[file_id].orphan THEN cache[file_id].bytes
  ELSE fs[file_id]

\* file.read_exact_at(&mut v, val_pos) with v of val_sz bytes
ReadExactAt(bytes, val_sz, val_pos) ==
  IF val_pos + val_sz > Len(bytes) THEN Err
  ELSE Some(Slice(bytes, val_pos, val_sz))

\* what HydraDB::get(k) returns on the engine (kd, cache) over the files fs
GetOn(kd, cache, fs, k) ==
  IF ~KeyDirHasKey(kd, k) THEN None
  ELSE IF kd[k].file_id \notin DOMAIN cache /\ kd[k].file_id \notin DOMAIN fs THEN Err
  ELSE ReadExactAt(HandleBytes(cache, fs, kd[k].file_id), kd[k].val_sz, kd[k].val_pos)

\* what HydraDB::get(k) returns in the current state
GetValue(k) == GetOn(key_dir, file_cache, files, k)

\* file_cache after get(k)
CacheAfterGet(k) ==
  IF KeyDirHasKey(key_dir, k) /\ key_dir[k].file_id \notin DOMAIN file_cache
     /\ key_dir[k].file_id \in DOMAIN files
  THEN [f \in DOMAIN file_cache \cup {key_dir[k].file_id} |->
          IF f \in DOMAIN file_cache THEN file_cache[f] ELSE LiveHandle]
  ELSE file_cache

\* HydraDB::list_all
list_all == KeyDirKeys(key_dir)

(***************************************************************************)
(* Merge                                                                   *)
(***************************************************************************)
\* entry.file_id == *file_id && entry.val_pos == file_entry.val_pos
IsLiveRecord(entry, file_id, file_entry) ==
  entry.file_id = file_id /\ entry.val_pos = file_entry.val_pos

\* mutant: the record keeps the val_pos it had in the file it is copied from
MergedValPosOfSource(cur_val_offset, file_entry) == file_entry.val_pos

\* let val_pos = cur_val_offset + 16 + file_entry.key.len()
MergedValPos(cur_val_offset, file_entry) ==
  cur_val_offset + HeaderSize + Len(file_entry.key)

\* mutant: a record whose key is not in the key directory is copied too
MergeRecordOfAbsentKey(m, file_entry, file_id) ==
  IF KeyDirHasKey(m.kd, file_entry.key)
     /\ ~IsLiveRecord(m.kd[file_entry.key], file_id, file_entry)
  THEN [m EXCEPT !.file_entry = file_entry]
  ELSE LET entry == to_db_entry(file_entry.crc, file_entry.tstamp, file_entry.key,
                                file_entry.val)
           val_pos == MergedValPos(m.cur_val_offset, file_entry)
       IN [kd |-> KeyDirPut(m.kd, file_entry.key,
                            KeyDirEntry(cur_id - 1, Len(file_entry.val), val_pos,
                                        file_entry.tstamp)),
           temp |-> m.temp \o entry,
           hint |-> m.hint \o to_hint_entry(file_entry.tstamp, file_entry.key,
                                            file_entry.val, val_pos),
           cur_val_offset |-> m.cur_val_offset + Len(entry),
           temp_file_has_data |-> TRUE,
           file_entry |-> file_entry]

\* the body of merge's while loop for one record of file file_id; m carries
\* the key directory, the bytes written to temp and hint, cur_val_offset and
\* temp_file_has_data
MergeRecord(m, file_entry, file_id) ==
  IF KeyDirHasKey(m.kd, file_entry.key)
     /\ IsLiveRecord(m.kd[file_entry.key], file_id, file_entry)
  THEN LET entry == to_db_entry(file_entry.crc, file_entry.tstamp, file_entry.key,
                                file_entry.val)
           val_pos == MergedValPos(m.cur_val_offset, file_entry)
       IN [kd |-> KeyDirPut(m.kd, file_entry.key,
                            KeyDirEntry(cur_id - 1, Len(file_entry.val), val_pos,
                                        file_entry.tstamp)),
           temp |-> m.temp \o entry,
           hint |-> m.hint \o to_hint_entry(file_entry.tstamp, file_entry.key,
                                            file_entry.val, val_pos),
           cur_val_offset |-> m.cur_val_offset + Len(entry),
           temp_file_has_data |-> TRUE,
           file_entry |-> file_entry]
  ELSE [m EXCEPT !.file_entry = file_entry]

RECURSIVE MergeRecords(_, _, _, _)
MergeRecords(m, entries, i, file_id) ==
  IF i > Len(entries) THEN m
  ELSE MergeRecords(MergeRecord(m, entries[i], file_id), entries, i + 1, file_id)

RECURSIVE MergeFiles(_, _, _)
\* the for loop of merge over the file ids ids[j..]
MergeFiles(m, ids, j) ==
  IF j > Len(ids) THEN m
  ELSE MergeFiles(
         MergeRecords(m, OptimizedDataFileIter(files[ids[j]], 0, ZeroBuf(HeaderSize),
                                               m.file_entry),
                      1, ids[j]),
         ids, j + 1)

\* mutant: the merge loops run over every numeric file name, the highest too
MergeInputsWithActive == SortedSeq(DOMAIN files)

\* &files[..files.len() - 1]: every numeric file name but the highest
MergeInputs ==
  LET ids == SortedSeq(DOMAIN files)
  IN SubSeq(ids, 1, Len(ids) - 1)

\* the state of merge after its first loop
Merged ==
  MergeFiles([kd |-> key_dir,
              temp |-> temp.bytes,
              hint |-> hint.bytes,
              cur_val_offset |-> 0,
              temp_file_has_data |-> FALSE,
              file_entry |-> NewDataFileEntry],
             MergeInputs, 1)

Range(s) == {s[i] : i \in 1..Len(s)}

\* the data files after merge removed its inputs and renamed temp
FilesAfterMerge(m) ==
  LET kept == DOMAIN files \ Range(MergeInputs)
  IN IF m.temp_file_has_data
     THEN [f \in kept \cup {cur_id - 1} |-> IF f = cur_id - 1 THEN m.temp ELSE files[f]]
     ELSE [f \in kept |-> files[f]]

\* mutant: the hint file is left behind when temp is empty
HintAfterMergeLeft(m) == File(m.hint)

\* the hint file after merge: removed together with an empty temp
HintAfterMerge(m) == IF m.temp_file_has_data THEN File(m.hint) ELSE NoFile

\* the read handles after merge unlinked its inputs: a cached handle keeps
\* the file it was opened on
CacheAfterMerge ==
  [f \in DOMAIN file_cache |->
     IF ~file_cache[f].orphan /\ f \in Range(MergeInputs) THEN OrphanHandle(files[f])
     ELSE file_cache[f]]

(***************************************************************************)
(* Operations                                                              *)
(***************************************************************************)
Op(op, k, ret) == [op |-> op, key |-> k, ret |-> ret]

\* the threads that share the engine
Callers == 1..NumCallers

\* one more thread, the only one that writes in SpecReaders
WriterThread == NumCallers + 1

Threads == Callers \cup {WriterThread}

\* a thread that is in no call of the engine
IdleThread ==
  [pc |-> "idle", op |-> "none", key |-> <<>>, val |-> <<>>,
   entry |-> KeyDirEntry(0, 0, 0, 0), result |-> None,
   pre |-> None, allowed |-> {}, beside |-> FALSE, raced |-> FALSE]

\* no merge() call in progress
IdleMerger ==
  [pc |-> "idle", files |-> <<>>, j |-> 0, temp |-> <<>>, hint |-> <<>>,
   cur_val_offset |-> 0, temp_file_has_data |-> FALSE,
   file_entry |-> NewDataFileEntry, pre |-> <<>>, disturbed |-> FALSE,
   i |-> 0, entry0 |-> NewDataFileEntry]

NoCrash ==
  [in_merge |-> FALSE, disturbed |-> FALSE, pre |-> <<>>,
   torn_file |-> -1, torn_pos |-> 0, torn_len |-> 0, io_errors |-> 0]

\* a process that has just built its engine: no call in progress, the
\* writer mutex free, nothing in the BufWriter
NoCalls ==
  /\ threads = [t \in Threads |-> IdleThread]
  /\ mutex = 0
  /\ buffered = <<>>
  /\ merger = IdleMerger
  /\ lock_order = <<>>
  /\ crash_info = NoCrash

\* HydraDB::new on a namespace that does not exist yet
Init ==
  /\ files = [f \in {0} |-> <<>>]
  /\ hint = NoFile
  /\ temp = NoFile
  /\ cur_id = 0
  /\ key_dir = EmptyKeyDir
  /\ max_file_size_threshold \in Thresholds
  /\ writer = [last_val_offset |-> 0, cur_file_size |-> 0]
  /\ file_cache = EmptyCache
  /\ clock = 0
  /\ shadow = [k \in MoreKeys |-> None]
  /\ last = Op("open", <<>>, TRUE)
  /\ puts_only = TRUE
  /\ merges = 0
  /\ opens = 0
  /\ NoCalls

\* mutant: a put leaves the entry of a key that is already in the directory
PutKeepsOldEntry(k, v) ==
  /\ LET r == put_with_file_size_check(k, v, clock)
     IN /\ files' = r.files
        /\ cur_id' = r.cur_id
        /\ writer' = r.writer
        /\ key_dir' = IF KeyDirHasKey(key_dir, k) THEN key_dir
                      ELSE KeyDirPut(key_dir, k, r.entry)
  /\ clock' = clock + 1
  /\ shadow' = [shadow EXCEPT ![k] = Some(v)]
  /\ last' = Op("put", k, TRUE)
  /\ UNCHANGED <<hint, temp, max_file_size_threshold, file_cache, puts_only, merges, opens>>
  /\ UNCHANGED thread_vars

\* HydraDB::put(k, v)
Put(k, v) ==
  /\ LET r == put_with_file_size_check(k, v, clock)
     IN /\ files' = r.files
        /\ cur_id' = r.cur_id
        /\ writer' = r.writer
        /\ key_dir' = KeyDirPut(key_dir, k, r.entry)
  /\ clock' = clock + 1
  /\ shadow' = [x \in DOMAIN shadow |-> IF x = k THEN Some(v) ELSE shadow[x]]
  /\ last' = Op("put", k, TRUE)
  /\ UNCHANGED <<hint, temp, max_file_size_threshold, file_cache, puts_only, merges, opens>>
  /\ UNCHANGED thread_vars

\* mutant: del writes the tombstone and leaves the key in the directory
DelLeavesKey(k) ==
  /\ LET k_exists == KeyDirHasKey(key_dir, k)
         r == put_with_file_size_check(k, TOMBSTONE, clock)
     IN /\ IF k_exists
           THEN /\ files' = r.files
                /\ cur_id' = r.cur_id
                /\ writer' = r.writer
                /\ clock' = clock + 1
                /\ UNCHANGED key_dir
           ELSE UNCHANGED <<files, cur_id, writer, key_dir, clock>>
        /\ last' = Op("del", k, k_exists)
  /\ shadow' = [shadow EXCEPT ![k] = None]
  /\ puts_only' = FALSE
  /\ UNCHANGED <<hint, temp, max_file_size_threshold, file_cache, merges, opens>>
  /\ UNCHANGED thread_vars

\* mutant: del writes the tombstone whether or not the key is there
DelWritesAlways(k) ==
  /\ LET k_exists == KeyDirHasKey(key_dir, k)
         r == put_with_file_size_check(k, TOMBSTONE, clock)
     IN /\ files' = r.files
        /\ cur_id' = r.cur_id
        /\ writer' = r.writer
        /\ key_dir' = KeyDirDel(key_dir, k)
        /\ clock' = clock + 1
        /\ last' = Op("del", k, k_exists)
  /\ shadow' = [shadow EXCEPT ![k] = None]
  /\ puts_only' = FALSE
  /\ UNCHANGED <<hint, temp, max_file_size_threshold, file_cache, merges, opens>>
  /\ UNCHANGED thread_vars

\* HydraDB::del(k)
Del(k) ==
  /\ LET k_exists == KeyDirHasKey(key_dir, k)
         r == put_with_file_size_check(k, TOMBSTONE, clock)
     IN /\ IF k_exists
           THEN /\ files' = r.files
                /\ cur_id' = r.cur_id
                /\ writer' = r.writer
                /\ key_dir' = KeyDirDel(key_dir, k)
                /\ clock' = clock + 1
           ELSE UNCHANGED <<files, cur_id, writer, key_dir, clock>>
        /\ last' = Op("del", k, k_exists)
  /\ shadow' = [shadow EXCEPT ![k] = None]
  /\ puts_only' = FALSE
  /\ UNCHANGED <<hint, temp, max_file_size_threshold, file_cache, merges, opens>>
  /\ UNCHANGED thread_vars

\* HydraDB::get(k): its effect on the engine; GetValue(k) is its result
Get(k) ==
  /\ file_cache' = CacheAfterGet(k)
  /\ UNCHANGED <<files, hint, temp, cur_id, key_dir, max_file_size_threshold, writer,
                 clock, shadow, last, puts_only, merges, opens>>
  /\ UNCHANGED thread_vars

\* HydraDB::merge()
Merge ==
  /\ merges < MaxMerges
  /\ IF cur_id = 0
     THEN UNCHANGED <<files, hint, temp, key_dir, file_cache>>
     ELSE /\ files' = FilesAfterMerge(Merged)
          /\ hint' = HintAfterMerge(Merged)
          /\ temp' = NoFile
          /\ key_dir' = Merged.kd
          /\ file_cache' = CacheAfterMerge
  /\ merges' = merges + 1
  /\ last' = Op("merge", <<>>, TRUE)
  /\ puts_only' = FALSE
  /\ UNCHANGED <<cur_id, max_file_size_threshold, writer, clock, shadow, opens>>
  /\ UNCHANGED thread_vars

\* the engine is dropped and HydraDB::new runs on the same directory
Reopen ==
  /\ opens < MaxOpens
  /\ LET mx == SetMax(DOMAIN files)
         cur_file_size == IF mx \in DOMAIN files THEN Len(files[mx]) ELSE 0
         fs == AppendTo(files, mx, <<>>)
     IN /\ files' = fs
        /\ cur_id' = mx
        /\ writer' = [last_val_offset |-> cur_file_size, cur_file_size |-> cur_file_size]
        /\ key_dir' = build_key_dir(fs, hint, mx)
  /\ file_cache' = EmptyCache
  /\ opens' = opens + 1
  /\ last' = Op("open", <<>>, TRUE)
  /\ puts_only' = FALSE
  /\ UNCHANGED <<hint, temp, max_file_size_threshold, clock, shadow, merges>>
  /\ UNCHANGED thread_vars

Next ==
  \/ clock < MaxWrites /\ \E k \in Keys, v \in Vals : Put(k, v)
  \/ clock < MaxWrites /\ \E k \in Keys : Del(k)
  \/ \E k \in Keys : Get(k)
  \/ Merge
  \/ Reopen

Spec == Init /\ [][Next]_vars

\* put(k, v) or del(k) (v = TOMBSTONE) whose rotation fails: cur_id.fetch_add
\* has run when File::open returns the error that ? hands to the caller
RotateFails(k, v) ==
  /\ v = TOMBSTONE => KeyDirHasKey(key_dir, k)
  /\ ShouldRotate(k, v, writer, max_file_size_threshold)
  /\ cur_id' = cur_id + 1
  /\ last' = Op("rotate_failed", k, FALSE)
  /\ puts_only' = (puts_only /\ v # TOMBSTONE)
  /\ UNCHANGED <<files, hint, temp, key_dir, max_file_size_threshold, writer, file_cache,
                 clock, shadow, merges, opens>>
  /\ UNCHANGED thread_vars

\* the rotations that have failed so far: the active id is that much above
\* the file the writer is open on
RotationsFailed == cur_id - WriterFile

\* an engine whose rotation may fail to open the new file
InitRotateFail == Init /\ max_file_size_threshold \in {1, 40}

NextRotateFail ==
  \/ clock < MaxRotateFailWrites /\ \E k \in Keys, v \in Vals : Put(k, v)
  \/ clock < MaxRotateFailWrites /\ \E k \in Keys : Del(k)
  \/ \E k \in Keys, v \in Vals \cup {TOMBSTONE} :
       RotationsFailed < MaxRotateFails /\ clock < MaxRotateFailWrites /\ RotateFails(k, v)
  \/ \E k \in Keys : Get(k)
  \/ Reopen

SpecRotateFail == InitRotateFail /\ [][NextRotateFail]_vars

\* a value that ends a few bytes before the reader's buffer does
BigVal == [i \in 1..(BufReaderCapacity - HeaderSize - 8) |-> 101]

\* an engine built with HydraDBBuilder's default threshold, given keys and
\* values of no bytes, of a few bytes and of nearly a reader's buffer
BigKeys == Keys \cup {<<>>}

BigVals == {<<>>, ValBytes(1), BigVal}

InitBig == Init /\ max_file_size_threshold = 1048576

NextBig ==
  \/ clock < MaxBigWrites /\ \E k \in BigKeys, v \in BigVals : Put(k, v)
  \/ Reopen

SpecBig == InitBig /\ [][NextBig]_vars

\* an engine built with threshold 1, so that every record gets a file of its
\* own; three keys, one value, no reads
InitRotateAll == Init /\ max_file_size_threshold = 1

NextRotateAll ==
  \/ clock < MaxRotateAllWrites /\ \E k \in MoreKeys : Put(k, ValBytes(1))
  \/ clock < MaxRotateAllWrites /\ \E k \in MoreKeys : Del(k)
  \/ Merge
  \/ Reopen

SpecRotateAll == InitRotateAll /\ [][NextRotateAll]_vars

\* engines whose records are all 24 bytes long (four-byte keys and values, as
\* in tests::test_split_file), built with threshold 60 (two records fit, the
\* third rotates) or 24 (the size check is met with equality on an empty file)
SplitThresholds == {24, 60}

SplitKeys == {[j \in 1..4 |-> i] : i \in 1..NumSplitKeys}

SplitVals == {[j \in 1..4 |-> 101]}

InitSplit ==
  /\ files = [f \in {0} |-> <<>>]
  /\ hint = NoFile
  /\ temp = NoFile
  /\ cur_id = 0
  /\ key_dir = EmptyKeyDir
  /\ max_file_size_threshold \in SplitThresholds
  /\ writer = [last_val_offset |-> 0, cur_file_size |-> 0]
  /\ file_cache = EmptyCache
  /\ clock = 0
  /\ shadow = [k \in SplitKeys |-> None]
  /\ last = Op("open", <<>>, TRUE)
  /\ puts_only = TRUE
  /\ merges = 0
  /\ opens = 0
  /\ NoCalls

NextSplit ==
  \/ clock < MaxSplitWrites /\ \E k \in SplitKeys, v \in SplitVals : Put(k, v)
  \/ clock < MaxSplitWrites /\ \E k \in SplitKeys : Del(k)
  \/ Merge
  \/ Reopen

SpecSplit == InitSplit /\ [][NextSplit]_vars

(***************************************************************************)
(* Calls in progress: every call of the engine as the steps other threads   *)
(* can observe                                                              *)
(***************************************************************************)
\* thread t is inside get(k)
InGet(t, k) ==
  threads[t].op = "get" /\ threads[t].pc # "idle" /\ threads[t].key = k

\* thread t is inside a put or del of k that may already have taken effect
InWrite(t, k) ==
  threads[t].op \in {"put", "del"} /\ threads[t].pc # "idle" /\ threads[t].key = k

\* what a write in progress leaves get(k) to return: Some(v) for put(k, v),
\* None for del(k)
Outcome(t) == IF threads[t].op = "put" THEN Some(threads[t].val) ELSE None

\* a write to k starts: every get(k) in progress may see its outcome
NoteWrite(k, outcome) ==
  [t \in Threads |->
     IF InGet(t, k) THEN [threads[t] EXCEPT !.allowed = @ \cup {outcome}]
     ELSE threads[t]]

\* a step of a put or del while a merge is in progress
NoteWriteStep ==
  IF merger.pc = "idle" THEN merger ELSE [merger EXCEPT !.disturbed = TRUE]

\* the records appended so far or about to be
WritesBegun ==
  clock + Cardinality({t \in Threads : threads[t].pc \in {"checked", "locked"}})

\* mutant: the lock is granted whoever holds it
MutexFreeAlways == TRUE

\* self.writer.lock() can return
MutexFree == mutex = 0

\* put(k, v) enters put_with_file_size_check and takes the writer mutex
PutLock(t, k, v) ==
  /\ threads[t].pc = "idle"
  /\ MutexFree
  /\ mutex' = t
  /\ lock_order' = Append(lock_order, <<k, v>>)
  /\ threads' = [NoteWrite(k, Some(v)) EXCEPT
                   ![t] = [IdleThread EXCEPT !.pc = "locked", !.op = "put",
                                             !.key = k, !.val = v]]
  /\ UNCHANGED <<files, hint, temp, cur_id, key_dir, max_file_size_threshold, writer,
                 file_cache, clock, shadow, last, puts_only, merges, opens,
                 buffered, merger, crash_info>>

\* del(k): key_dir.has_key(k); Ok(false) when k is absent
DelCheck(t, k) ==
  /\ threads[t].pc = "idle"
  /\ IF KeyDirHasKey(key_dir, k)
     THEN /\ threads' = [NoteWrite(k, None) EXCEPT
                           ![t] = [IdleThread EXCEPT !.pc = "checked", !.op = "del",
                                                     !.key = k, !.val = TOMBSTONE]]
          /\ UNCHANGED <<shadow, last>>
     ELSE /\ threads' = [threads EXCEPT
                           ![t] = [IdleThread EXCEPT !.op = "del", !.key = k]]
          /\ shadow' = [shadow EXCEPT ![k] = None]
          /\ last' = Op("del", k, FALSE)
  /\ puts_only' = FALSE
  /\ UNCHANGED <<files, hint, temp, cur_id, key_dir, max_file_size_threshold, writer,
                 file_cache, clock, merges, opens,
                 mutex, buffered, merger, lock_order, crash_info>>

\* del(k) enters put_with_file_size_check(k, TOMBSTONE) and takes the mutex
DelLock(t) ==
  /\ threads[t].pc = "checked"
  /\ MutexFree
  /\ mutex' = t
  /\ lock_order' = Append(lock_order, <<threads[t].key, threads[t].val>>)
  /\ threads' = [threads EXCEPT ![t].pc = "locked"]
  /\ UNCHANGED <<files, hint, temp, cur_id, key_dir, max_file_size_threshold, writer,
                 file_cache, clock, shadow, last, puts_only, merges, opens,
                 buffered, merger, crash_info>>

\* mutant: the key-directory entry is installed as soon as the record is
\* handed to the BufWriter, before the flush
WriteInstalls(t) ==
  /\ threads[t].pc = "locked"
  /\ LET r == put_with_file_size_check(threads[t].key, threads[t].val, clock)
         rotate == r.cur_id # cur_id
     IN /\ files' = AppendTo(AppendTo(files, cur_id, IF rotate THEN buffered ELSE <<>>),
                             r.cur_id, <<>>)
        /\ cur_id' = r.cur_id
        /\ writer' = [last_val_offset |-> r.writer.last_val_offset,
                      cur_file_size |-> r.writer.cur_file_size - Len(r.bytes)]
        /\ buffered' = (IF rotate THEN <<>> ELSE buffered) \o r.bytes
        /\ threads' = [u \in Threads |->
                         IF u = t
                         THEN [threads[t] EXCEPT !.pc = "written", !.entry = r.entry]
                         ELSE IF threads[u].op = "get" /\ threads[u].pc # "idle"
                         THEN [threads[u] EXCEPT !.raced = TRUE]
                         ELSE threads[u]]
        /\ key_dir' = IF threads[t].op = "put"
                      THEN KeyDirPut(key_dir, threads[t].key, r.entry)
                      ELSE key_dir
  /\ clock' = clock + 1
  /\ merger' = NoteWriteStep
  /\ UNCHANGED <<hint, temp, max_file_size_threshold, file_cache, shadow,
                 last, puts_only, merges, opens, mutex, lock_order, crash_info>>

\* put_with_file_size_check up to write_all: the size check, the rotation
\* (fetch_add, the new file created, the writer replaced, which drops the old
\* BufWriter), val_pos, last_val_offset, and the record handed to the
\* BufWriter
Write(t) ==
  /\ threads[t].pc = "locked"
  /\ LET r == put_with_file_size_check(threads[t].key, threads[t].val, clock)
         rotate == r.cur_id # cur_id
     IN /\ files' = AppendTo(AppendTo(files, cur_id, IF rotate THEN buffered ELSE <<>>),
                             r.cur_id, <<>>)
        /\ cur_id' = r.cur_id
        /\ writer' = [last_val_offset |-> r.writer.last_val_offset,
                      cur_file_size |-> r.writer.cur_file_size - Len(r.bytes)]
        /\ buffered' = (IF rotate THEN <<>> ELSE buffered) \o r.bytes
        /\ threads' = [u \in Threads |->
                         IF u = t
                         THEN [threads[t] EXCEPT !.pc = "written", !.entry = r.entry]
                         ELSE IF threads[u].op = "get" /\ threads[u].pc # "idle"
                         THEN [threads[u] EXCEPT !.raced = TRUE]
                         ELSE threads[u]]
  /\ clock' = clock + 1
  /\ merger' = NoteWriteStep
  /\ UNCHANGED <<hint, temp, key_dir, max_file_size_threshold, file_cache, shadow,
                 last, puts_only, merges, opens, mutex, lock_order, crash_info>>

\* flush, cur_file_size += 16 + ksz + vsz, and the return of
\* put_with_file_size_check, which releases the mutex
Flush(t) ==
  /\ threads[t].pc = "written"
  /\ files' = AppendTo(files, cur_id, buffered)
  /\ buffered' = <<>>
  /\ writer' = [writer EXCEPT
                  !.cur_file_size = @ + HeaderSize + Len(threads[t].key) + Len(threads[t].val)]
  /\ mutex' = 0
  /\ threads' = [threads EXCEPT ![t].pc = "flushed"]
  /\ merger' = NoteWriteStep
  /\ UNCHANGED <<hint, temp, cur_id, key_dir, max_file_size_threshold, file_cache,
                 clock, shadow, last, puts_only, merges, opens, lock_order, crash_info>>

\* key_dir.put(k, entry) of put, key_dir.del(k) of del, and the return
Install(t) ==
  /\ threads[t].pc = "flushed"
  /\ key_dir' = IF threads[t].op = "put"
                THEN KeyDirPut(key_dir, threads[t].key, threads[t].entry)
                ELSE KeyDirDel(key_dir, threads[t].key)
  /\ shadow' = [shadow EXCEPT ![threads[t].key] = Outcome(t)]
  /\ last' = Op(threads[t].op, threads[t].key, TRUE)
  /\ threads' = [threads EXCEPT
                   ![t] = [IdleThread EXCEPT !.op = threads[t].op, !.key = threads[t].key,
                                             !.val = threads[t].val,
                                             !.entry = threads[t].entry]]
  /\ merger' = NoteWriteStep
  /\ UNCHANGED <<files, hint, temp, cur_id, max_file_size_threshold, writer, file_cache,
                 clock, puts_only, merges, opens, mutex, buffered, lock_order,
                 crash_info>>

\* what get(k) may return when it starts now: what a get returns at this
\* moment, or the outcome of a write to k in progress
AllowedNow(k) ==
  {GetValue(k)} \cup {Outcome(u) : u \in {x \in Threads : InWrite(x, k)}}

\* get(k) is called: what it may return is fixed from here on
GetStart(t, k) ==
  /\ threads[t].pc = "idle"
  /\ threads' = [threads EXCEPT
                   ![t] = [IdleThread EXCEPT !.pc = "started", !.op = "get", !.key = k,
                                             !.pre = GetValue(k),
                                             !.allowed = AllowedNow(k)]]
  /\ UNCHANGED <<files, hint, temp, cur_id, key_dir, max_file_size_threshold, writer,
                 file_cache, clock, shadow, last, puts_only, merges, opens,
                 mutex, buffered, merger, lock_order, crash_info>>

\* get(k): self.key_dir.get(k); Ok(None) when k is absent
GetLookup(t) ==
  /\ threads[t].pc = "started"
  /\ threads' = [threads EXCEPT
                   ![t] = IF KeyDirHasKey(key_dir, threads[t].key)
                          THEN [threads[t] EXCEPT !.pc = "looked",
                                                  !.entry = key_dir[threads[t].key]]
                          ELSE [threads[t] EXCEPT !.pc = "idle", !.result = None]]
  /\ UNCHANGED <<files, hint, temp, cur_id, key_dir, max_file_size_threshold, writer,
                 file_cache, clock, shadow, last, puts_only, merges, opens,
                 mutex, buffered, merger, lock_order, crash_info>>

\* another thread is reading through the handle of the same file id
ReaderBeside(t) ==
  \E u \in Threads \ {t} :
    /\ threads[u].op = "get"
    /\ threads[u].pc = "opened"
    /\ threads[u].entry.file_id = threads[t].entry.file_id

\* get: the handle for entry.file_id, from file_cache or opened and cached
\* now; Err when the file cannot be opened
GetOpen(t) ==
  /\ threads[t].pc = "looked"
  /\ LET file_id == threads[t].entry.file_id
     IN IF file_id \in DOMAIN file_cache
        THEN /\ threads' = [threads EXCEPT ![t].pc = "opened",
                                            ![t].beside = ReaderBeside(t)]
             /\ UNCHANGED file_cache
        ELSE IF file_id \in DOMAIN files
        THEN /\ threads' = [threads EXCEPT ![t].pc = "opened",
                                            ![t].beside = ReaderBeside(t)]
             /\ file_cache' = [f \in DOMAIN file_cache \cup {file_id} |->
                                 IF f \in DOMAIN file_cache THEN file_cache[f]
                                 ELSE LiveHandle]
        ELSE /\ threads' = [threads EXCEPT ![t].pc = "idle", ![t].result = Err]
             /\ UNCHANGED file_cache
  /\ UNCHANGED <<files, hint, temp, cur_id, key_dir, max_file_size_threshold, writer,
                 clock, shadow, last, puts_only, merges, opens,
                 mutex, buffered, merger, lock_order, crash_info>>

\* mutant: the read starts where the shared cursor of the handle stands, the
\* highest offset a get in progress has asked for
ReadPosShared(t) ==
  LET S == {threads[u].entry.val_pos :
              u \in {x \in Threads : threads[x].op = "get" /\ threads[x].pc = "opened"}}
  IN CHOOSE p \in S : \A q \in S : q <= p

\* the offset get hands to read_exact_at
ReadPos(t) == threads[t].entry.val_pos

\* get: file.read_exact_at(&mut v, val_pos) and the return
GetRead(t) ==
  /\ threads[t].pc = "opened"
  /\ threads' = [threads EXCEPT
                   ![t].pc = "idle",
                   ![t].beside = @ \/ ReaderBeside(t),
                   ![t].result = ReadExactAt(HandleBytes(file_cache, files,
                                                         threads[t].entry.file_id),
                                             threads[t].entry.val_sz, ReadPos(t))]
  /\ UNCHANGED <<files, hint, temp, cur_id, key_dir, max_file_size_threshold, writer,
                 file_cache, clock, shadow, last, puts_only, merges, opens,
                 mutex, buffered, merger, lock_order, crash_info>>

\* &files[..files.len() - 1] of the merge in progress
MergerInputs == SubSeq(merger.files, 1, Len(merger.files) - 1)

\* merge(): the check of cur_id and the listing of the numeric file names
MergeStart ==
  /\ merger.pc = "idle"
  /\ merges < MaxMerges
  /\ merges' = merges + 1
  /\ puts_only' = FALSE
  /\ IF cur_id = 0
     THEN /\ last' = Op("merge", <<>>, TRUE)
          /\ UNCHANGED merger
     ELSE /\ merger' = [IdleMerger EXCEPT
                          !.pc = "listed",
                          !.files = SortedSeq(DOMAIN files),
                          !.pre = [k \in DOMAIN key_dir |-> GetValue(k)],
                          !.disturbed = \E t \in Threads : \E k \in MoreKeys : InWrite(t, k)]
          /\ UNCHANGED last
  /\ UNCHANGED <<files, hint, temp, cur_id, key_dir, max_file_size_threshold, writer,
                 file_cache, clock, shadow, opens, threads, mutex, buffered, lock_order,
                 crash_info>>

\* merge(): temp and hint opened with create + append, each behind a
\* BufWriter that holds what the loop writes until it is dropped
MergeOpen ==
  /\ merger.pc = "listed"
  /\ temp' = File(temp.bytes)
  /\ hint' = File(hint.bytes)
  /\ merger' = [merger EXCEPT !.pc = "opened", !.j = 1]
  /\ UNCHANGED threads
  /\ UNCHANGED <<files, cur_id, key_dir, max_file_size_threshold, writer, file_cache,
                 clock, shadow, last, puts_only, merges, opens, mutex, buffered,
                 lock_order, crash_info>>

\* merge(): one round of the first for loop, the records of one input file
MergeFile ==
  /\ merger.pc = "opened"
  /\ merger.j <= Len(MergerInputs)
  /\ MergerInputs[merger.j] \in DOMAIN files
  /\ LET file_id == MergerInputs[merger.j]
         m == MergeRecords([kd |-> key_dir,
                            temp |-> merger.temp,
                            hint |-> merger.hint,
                            cur_val_offset |-> merger.cur_val_offset,
                            temp_file_has_data |-> merger.temp_file_has_data,
                            file_entry |-> merger.file_entry],
                           OptimizedDataFileIter(files[file_id], 0, ZeroBuf(HeaderSize),
                                                 merger.file_entry),
                           1, file_id)
     IN /\ key_dir' = m.kd
        /\ merger' = [merger EXCEPT
                        !.j = @ + 1, !.temp = m.temp, !.hint = m.hint,
                        !.cur_val_offset = m.cur_val_offset,
                        !.temp_file_has_data = m.temp_file_has_data,
                        !.file_entry = m.file_entry]
  /\ UNCHANGED threads
  /\ UNCHANGED <<files, hint, temp, cur_id, max_file_size_threshold, writer, file_cache,
                 clock, shadow, last, puts_only, merges, opens, mutex, buffered,
                 lock_order, crash_info>>

\* merge(): the second for loop, fs::remove_file of every input file
MergeRemove ==
  /\ merger.pc = "opened"
  /\ merger.j > Len(MergerInputs)
  /\ files' = [f \in DOMAIN files \ Range(MergerInputs) |-> files[f]]
  /\ file_cache' = [f \in DOMAIN file_cache |->
                      IF ~file_cache[f].orphan /\ f \in Range(MergerInputs)
                           /\ f \in DOMAIN files
                      THEN OrphanHandle(files[f])
                      ELSE file_cache[f]]
  /\ merger' = [merger EXCEPT !.pc = "removed"]
  /\ UNCHANGED threads
  /\ UNCHANGED <<hint, temp, cur_id, key_dir, max_file_size_threshold, writer, clock,
                 shadow, last, puts_only, merges, opens, mutex, buffered, lock_order,
                 crash_info>>

\* merge(): temp renamed to cur_id - 1, or temp and hint removed; then the
\* return, which drops the two BufWriters and so writes out what they hold
MergeFinish ==
  /\ merger.pc = "removed"
  /\ IF merger.temp_file_has_data
     THEN /\ files' = [f \in DOMAIN files \cup {cur_id - 1} |->
                         IF f = cur_id - 1 THEN temp.bytes \o merger.temp ELSE files[f]]
          /\ hint' = File(hint.bytes \o merger.hint)
          /\ file_cache' = [f \in DOMAIN file_cache |->
                              IF ~file_cache[f].orphan /\ f = cur_id - 1
                                   /\ f \in DOMAIN files
                              THEN OrphanHandle(files[f])
                              ELSE file_cache[f]]
     ELSE /\ hint' = NoFile
          /\ UNCHANGED <<files, file_cache>>
  /\ temp' = NoFile
  /\ merger' = IdleMerger
  /\ last' = Op("merge", <<>>, TRUE)
  /\ UNCHANGED threads
  /\ UNCHANGED <<cur_id, key_dir, max_file_size_threshold, writer, clock, shadow,
                 puts_only, merges, opens, mutex, buffered, lock_order, crash_info>>

\* the process stops where it is (what the BufWriters hold is lost with it)
\* and HydraDB::new runs on the directory it leaves
Crash ==
  /\ opens < MaxOpens
  /\ LET mx == SetMax(DOMAIN files)
         cur_file_size == IF mx \in DOMAIN files THEN Len(files[mx]) ELSE 0
         fs == AppendTo(files, mx, <<>>)
     IN /\ files' = fs
        /\ cur_id' = mx
        /\ writer' = [last_val_offset |-> cur_file_size, cur_file_size |-> cur_file_size]
        /\ key_dir' = build_key_dir(fs, hint, mx)
  /\ file_cache' = EmptyCache
  /\ opens' = opens + 1
  /\ last' = Op("crash", <<>>, TRUE)
  /\ puts_only' = FALSE
  /\ threads' = [t \in Threads |-> IdleThread]
  /\ mutex' = 0
  /\ buffered' = <<>>
  /\ merger' = IdleMerger
  /\ lock_order' = <<>>
  /\ crash_info' = [crash_info EXCEPT !.in_merge = merger.pc # "idle",
                                      !.disturbed = merger.disturbed,
                                      !.pre = merger.pre]
  /\ UNCHANGED <<hint, temp, max_file_size_threshold, clock, shadow, merges>>

\* an engine shared by NumCallers threads that put, del and get
InitThreads == Init /\ max_file_size_threshold \in {1, 40}

NextThreads ==
  \/ \E t \in Callers, k \in Keys, v \in Vals :
       WritesBegun < MaxThreadWrites /\ PutLock(t, k, v)
  \/ \E t \in Callers, k \in Keys : WritesBegun < MaxThreadWrites /\ DelCheck(t, k)
  \/ \E t \in Callers : DelLock(t)
  \/ \E t \in Callers : Write(t)
  \/ \E t \in Callers : Flush(t)
  \/ \E t \in Callers : Install(t)
  \/ \E t \in Callers, k \in Keys : GetStart(t, k)
  \/ \E t \in Callers : GetLookup(t)
  \/ \E t \in Callers : GetOpen(t)
  \/ \E t \in Callers : GetRead(t)

SpecThreads == InitThreads /\ [][NextThreads]_vars

\* an engine shared by NumCallers threads that get and one thread that puts,
\* each key with a value of its own
InitReaders == Init /\ max_file_size_threshold \in {1, 40}

NextReaders ==
  \/ \E k \in Keys :
       WritesBegun < MaxReaderWrites /\ PutLock(WriterThread, k, ValBytes(Len(k)))
  \/ Write(WriterThread)
  \/ Flush(WriterThread)
  \/ Install(WriterThread)
  \/ \E t \in Callers, k \in Keys : GetStart(t, k)
  \/ \E t \in Callers : GetLookup(t)
  \/ \E t \in Callers : GetOpen(t)
  \/ \E t \in Callers : GetRead(t)

SpecReaders == InitReaders /\ [][NextReaders]_vars

\* an engine shared by one thread that puts and dels and one more that calls
\* merge; the process may stop at any step of the merge and the cask be
\* opened again
InitMerge == Init /\ max_file_size_threshold \in {1, 40}

NextMerge ==
  \/ \E k \in Keys : WritesBegun < MaxMergeWrites /\ PutLock(1, k, ValBytes(1))
  \/ \E k \in Keys : WritesBegun < MaxMergeWrites /\ DelCheck(1, k)
  \/ DelLock(1)
  \/ Write(1)
  \/ Flush(1)
  \/ Install(1)
  \/ merges < MaxStepMerges /\ MergeStart
  \/ MergeOpen
  \/ MergeFile
  \/ MergeRemove
  \/ MergeFinish
  \/ merger.pc # "idle" /\ Crash

SpecMerge == InitMerge /\ [][NextMerge]_vars

\* what file_iter.next_into leaves in file_entry, call after call, for the
\* input file the merge in progress is reading
MergeItems ==
  OptimizedDataFileIter(files[MergerInputs[merger.j]], 0, ZeroBuf(HeaderSize),
                        merger.entry0)

\* merge(): next_into and self.key_dir.get(&file_entry.key) for one record,
\* with the comparison of file_id and val_pos
MergeGet ==
  /\ merger.pc = "opened"
  /\ merger.j <= Len(MergerInputs)
  /\ MergerInputs[merger.j] \in DOMAIN files
  /\ merger.i < Len(MergeItems)
  /\ LET file_id == MergerInputs[merger.j]
         e == MergeItems[merger.i + 1]
     IN IF KeyDirHasKey(key_dir, e.key) /\ IsLiveRecord(key_dir[e.key], file_id, e)
        THEN merger' = [merger EXCEPT !.pc = "got", !.file_entry = e]
        ELSE merger' = [merger EXCEPT !.i = @ + 1, !.file_entry = e]
  /\ UNCHANGED threads
  /\ UNCHANGED <<files, hint, temp, cur_id, key_dir, max_file_size_threshold, writer,
                 file_cache, clock, shadow, last, puts_only, merges, opens, mutex,
                 buffered, lock_order, crash_info>>

\* merge(): the record found live is written to temp and hint and
\* self.key_dir.put points the key at it
MergePut ==
  /\ merger.pc = "got"
  /\ LET file_id == MergerInputs[merger.j]
         e == merger.file_entry
         found == KeyDirPut(key_dir, e.key,
                            KeyDirEntry(file_id, e.vsz, e.val_pos, e.tstamp))
         m == MergeRecord([kd |-> found,
                           temp |-> merger.temp,
                           hint |-> merger.hint,
                           cur_val_offset |-> merger.cur_val_offset,
                           temp_file_has_data |-> merger.temp_file_has_data,
                           file_entry |-> e],
                          e, file_id)
     IN /\ key_dir' = m.kd
        /\ merger' = [merger EXCEPT
                        !.pc = "opened", !.i = @ + 1, !.temp = m.temp, !.hint = m.hint,
                        !.cur_val_offset = m.cur_val_offset,
                        !.temp_file_has_data = m.temp_file_has_data]
  /\ UNCHANGED threads
  /\ UNCHANGED <<files, hint, temp, cur_id, max_file_size_threshold, writer, file_cache,
                 clock, shadow, last, puts_only, merges, opens, mutex, buffered,
                 lock_order, crash_info>>

\* merge(): next_into returned None, the for loop goes to the next input file
MergeNextFile ==
  /\ merger.pc = "opened"
  /\ merger.j <= Len(MergerInputs)
  /\ MergerInputs[merger.j] \in DOMAIN files
  /\ merger.i = Len(MergeItems)
  /\ merger' = [merger EXCEPT !.j = @ + 1, !.i = 0, !.entry0 = merger.file_entry]
  /\ UNCHANGED threads
  /\ UNCHANGED <<files, hint, temp, cur_id, key_dir, max_file_size_threshold, writer,
                 file_cache, clock, shadow, last, puts_only, merges, opens, mutex,
                 buffered, lock_order, crash_info>>

\* an engine shared by one thread that puts and dels and one more that calls
\* merge, the merge taken record by record
InitMergeRace == Init /\ max_file_size_threshold \in {1, 40}

NextMergeRace ==
  \/ \E k \in Keys, v \in Vals : WritesBegun < MaxRaceWrites /\ PutLock(1, k, v)
  \/ \E k \in Keys : WritesBegun < MaxRaceWrites /\ DelCheck(1, k)
  \/ DelLock(1)
  \/ Write(1)
  \/ Flush(1)
  \/ Install(1)
  \/ merges < MaxStepMerges /\ MergeStart
  \/ MergeOpen
  \/ MergeGet
  \/ MergePut
  \/ MergeNextFile
  \/ MergeRemove
  \/ MergeFinish

SpecMergeRace == InitMergeRace /\ [][NextMergeRace]_vars

\* flush fails: nothing reaches the file and the BufWriter keeps the bytes;
\* the result is dropped (let _ =), cur_file_size grows and
\* put_with_file_size_check returns Ok with the entry
FlushFails(t) ==
  /\ threads[t].pc = "written"
  /\ crash_info.io_errors < MaxFaults
  /\ writer' = [writer EXCEPT
                  !.cur_file_size = @ + HeaderSize + Len(threads[t].key) + Len(threads[t].val)]
  /\ mutex' = 0
  /\ threads' = [threads EXCEPT ![t].pc = "flushed"]
  /\ merger' = NoteWriteStep
  /\ crash_info' = [crash_info EXCEPT !.io_errors = @ + 1]
  /\ UNCHANGED <<files, hint, temp, cur_id, key_dir, max_file_size_threshold, file_cache,
                 clock, shadow, last, puts_only, merges, opens, lock_order, buffered>>

\* how much of a record may have reached the file when the process stops
\* inside flush: part of the header, the header alone, or header and key
TornLengths(t) ==
  {n \in {HeaderSize \div 2, HeaderSize, HeaderSize + Len(threads[t].key)} :
     n < Len(buffered)}

\* the process stops inside flush with the first n bytes of the record in the
\* active file, and HydraDB::new runs on the directory it leaves
TornCrash(t, n) ==
  /\ threads[t].pc = "written"
  /\ crash_info.torn_file = -1
  /\ Len(buffered) = HeaderSize + Len(threads[t].key) + Len(threads[t].val)
  /\ n \in TornLengths(t)
  /\ LET torn == AppendTo(files, cur_id, SubSeq(buffered, 1, n))
         mx == SetMax(DOMAIN torn)
         cur_file_size == IF mx \in DOMAIN torn THEN Len(torn[mx]) ELSE 0
         fs == AppendTo(torn, mx, <<>>)
     IN /\ files' = fs
        /\ cur_id' = mx
        /\ writer' = [last_val_offset |-> cur_file_size, cur_file_size |-> cur_file_size]
        /\ key_dir' = build_key_dir(fs, hint, mx)
  /\ file_cache' = EmptyCache
  /\ last' = Op("torn", threads[t].key, TRUE)
  /\ puts_only' = FALSE
  /\ threads' = [u \in Threads |-> IdleThread]
  /\ mutex' = 0
  /\ buffered' = <<>>
  /\ merger' = IdleMerger
  /\ lock_order' = <<>>
  /\ crash_info' = [crash_info EXCEPT !.torn_file = cur_id,
                                      !.torn_pos = Len(files[cur_id]),
                                      !.torn_len = n]
  /\ UNCHANGED <<hint, temp, max_file_size_threshold, clock, shadow, merges, opens>>

\* an engine used by one thread whose flushes may fail and whose process may
\* stop inside a flush or between two calls, the cask being opened again
InitFaults == Init

NextFaults ==
  \/ \E k \in Keys : WritesBegun < MaxFaultWrites /\ PutLock(1, k, ValBytes(1))
  \/ \E k \in Keys : WritesBegun < MaxFaultWrites /\ DelCheck(1, k)
  \/ DelLock(1)
  \/ Write(1)
  \/ Flush(1)
  \/ FlushFails(1)
  \/ Install(1)
  \/ \E n \in TornLengths(1) : TornCrash(1, n)
  \/ threads[1].pc = "idle" /\ Merge
  \/ threads[1].pc = "idle" /\ Crash

SpecFaults == InitFaults /\ [][NextFaults]_vars

(***************************************************************************)
(* What the cask holds, read off the files                                 *)
(***************************************************************************)
RECURSIVE RecordsOfFiles(_, _)
\* the complete records of the data files ids[j..], in file then offset
\* order, each with the id of its file
RecordsOfFiles(ids, j) ==
  IF j > Len(ids) THEN <<>>
  ELSE LET items == DataFileIter(files[ids[j]], 0, ZeroBuf(HeaderSize))
       IN [i \in 1..Len(items) |->
             [file_id |-> ids[j], key |-> items[i].key, val |-> items[i].val,
              val_pos |-> items[i].val_pos]]
          \o RecordsOfFiles(ids, j + 1)

CaskRecords == RecordsOfFiles(SortedSeq(DOMAIN files), 1)

\* the index in CaskRecords of the most recent record of key k, 0 if none
LatestIndex(k) ==
  LET idx == {i \in 1..Len(CaskRecords) : CaskRecords[i].key = k}
  IN IF idx = {} THEN 0 ELSE CHOOSE i \in idx : \A j \in idx : j <= i

\* the keys whose most recent record in the cask is not a tombstone
LiveKeysOnDisk ==
  {k \in MoreKeys : LatestIndex(k) # 0 /\ CaskRecords[LatestIndex(k)].val # TOMBSTONE}

\* the keys whose most recent record in the cask is a tombstone
DeadKeysOnDisk ==
  {k \in MoreKeys : LatestIndex(k) # 0 /\ CaskRecords[LatestIndex(k)].val = TOMBSTONE}

\* the entry of key k designates the value bytes of a record of k in the file
\* now named by its file_id
LocatorValid(k) ==
  \E i \in 1..Len(CaskRecords) :
    /\ CaskRecords[i].file_id = key_dir[k].file_id
    /\ CaskRecords[i].key = k
    /\ CaskRecords[i].val_pos = key_dir[k].val_pos
    /\ Len(CaskRecords[i].val) = key_dir[k].val_sz

\* some key was written twice, with different values, into different files
OverwrittenAcrossFiles(k) ==
  \E i, j \in 1..Len(CaskRecords) :
    /\ i < j
    /\ CaskRecords[i].key = k /\ CaskRecords[j].key = k
    /\ CaskRecords[i].val # CaskRecords[j].val
    /\ CaskRecords[i].file_id # CaskRecords[j].file_id

(***************************************************************************)
(* Claims                                                                  *)
(***************************************************************************)
\* C1: round trip. As long as the engine has only been asked to put (and
\* get), under every threshold and so across rotations, get of every key
\* returns the value last put for it, and absent for a key never put.
C1_RoundTrip ==
  puts_only => \A k \in MoreKeys : GetValue(k) = shadow[k]

\* reached: two distinct keys, each put once, in two different files, both
\* read back
C1_Witness ==
  /\ puts_only
  /\ clock = 2
  /\ cur_id >= 1
  /\ \A k \in Keys : shadow[k] # None /\ GetValue(k) = shadow[k]
  /\ \E k1, k2 \in Keys : key_dir[k1].file_id # key_dir[k2].file_id

\* C2: last writer wins. After any put(k, v), whatever came before it on the
\* cask (earlier puts of k, rotations, dels, merges, a reopen), get(k)
\* returns v and list_all contains k.
C2_LastWriterWins ==
  last.op = "put" =>
    /\ GetValue(last.key) = shadow[last.key]
    /\ list_all.some
    /\ Cardinality({k \in list_all.keys : k = last.key}) = 1

\* reached: the key just put had been put before with another value, in an
\* older file, and get returns the newer value
C2_Witness ==
  /\ last.op = "put"
  /\ OverwrittenAcrossFiles(last.key)
  /\ GetValue(last.key) = Some(CaskRecords[LatestIndex(last.key)].val)
  /\ list_all.keys = {last.key}

\* a step of del(k)
DelStep(k) == last' # last /\ last'.op = "del" /\ last'.key = k

\* C3: delete. del(k) returns true exactly when k is in the key directory
\* when it is called; afterwards k is not in the key directory, get(k) is
\* absent and list_all does not contain k (so a second del(k) returns false).
C3_DeleteSemantics ==
  [][\A k \in MoreKeys :
       DelStep(k) =>
         /\ last'.ret = KeyDirHasKey(key_dir, k)
         /\ ~KeyDirHasKey(key_dir', k)
         /\ GetOn(key_dir', file_cache', files', k) = None
         /\ k \notin KeyDirKeys(key_dir').keys]_vars

\* reached: a del that returned true for a key that had a value, and left it
\* absent
C3_Witness ==
  /\ last.op = "del"
  /\ last.ret
  /\ LatestIndex(last.key) # 0
  /\ CaskRecords[LatestIndex(last.key)].val = TOMBSTONE
  /\ GetValue(last.key) = None

C5_LocatorValid ==
  \A k \in DOMAIN key_dir : LocatorValid(k)

\* a step that drops the engine and opens the cask again
ReopenStep == opens' # opens

\* C6: recovery on the data-file path. After puts only, on a cask with no
\* hint file, the key directory rebuilt by a reopen equals the one held
\* before it.
C6_DataFileRecovery ==
  [][(ReopenStep /\ puts_only /\ ~hint.exists) => key_dir' = key_dir]_vars

\* C7: tombstone replay. After a reopen of a cask with no hint file, no key
\* whose most recent record is a tombstone is in the key directory.
C7_TombstoneReplay ==
  (opens > 0 /\ last.op = "open" /\ ~hint.exists) =>
    \A k \in DeadKeysOnDisk : ~KeyDirHasKey(key_dir, k) /\ GetValue(k) = None

\* C8: recovery on the hint-file path. A reopen right after a merge that left
\* a hint file rebuilds the key directory the engine held before, and get
\* returns the same for every key.
C8_HintFileRecovery ==
  [][(ReopenStep /\ last.op = "merge" /\ hint.exists) =>
       /\ key_dir' = key_dir
       /\ \A k \in MoreKeys :
            GetOn(key_dir', file_cache', files', k) = GetValue(k)]_vars

\* a step of merge()
MergeStep == merges' # merges

\* C9: merge keeps every value readable. For every key in the key directory
\* before a merge, get returns the same after the merge as before it.
C9_MergeKeepsValues ==
  [][MergeStep =>
       \A k \in DOMAIN key_dir :
         GetOn(key_dir', file_cache', files', k) = GetValue(k)]_vars

\* C10: the files after a merge. After merge() on an engine with active id
\* N > 0 the cask holds no temp file and no data file other than N and N - 1,
\* and either a non-empty file N - 1 together with a hint file, or neither.
C10_MergeFileSet ==
  (last.op = "merge" /\ cur_id > 0) =>
    /\ cur_id \in DOMAIN files
    /\ DOMAIN files \subseteq {cur_id - 1, cur_id}
    /\ ~temp.exists
    /\ \/ cur_id - 1 \in DOMAIN files /\ files[cur_id - 1] # <<>> /\ hint.exists
       \/ cur_id - 1 \notin DOMAIN files /\ ~hint.exists

\* reached: a merge of three or more files that copied a live record
C10_WitnessMerged ==
  /\ last.op = "merge"
  /\ cur_id >= 3
  /\ DOMAIN files = {cur_id - 1, cur_id}
  /\ hint.exists

\* C11: merge does not touch the active file. A merge() step leaves the active
\* id, the bytes of the active data file, the writer's tracked length and
\* running offset and every key-directory entry whose file_id is the active id
\* as they were, and get of a key whose entry is in the active file returns
\* after the merge what it returned before.
C11_MergeLeavesActive ==
  [][MergeStep =>
       /\ cur_id' = cur_id
       /\ cur_id \in DOMAIN files'
       /\ files'[cur_id] = files[cur_id]
       /\ writer' = writer
       /\ \A k \in DOMAIN key_dir :
            key_dir[k].file_id = cur_id =>
              /\ KeyDirHasKey(key_dir', k)
              /\ key_dir'[k] = key_dir[k]
              /\ GetOn(key_dir', file_cache', files', k) = GetValue(k)]_vars

\* reached: a merge that copied a live record out of an older file while
\* another key had its value in the active file; that value is read back
C11_Witness ==
  /\ last.op = "merge"
  /\ hint.exists
  /\ \E k \in DOMAIN key_dir :
       /\ key_dir[k].file_id = cur_id
       /\ GetValue(k) = shadow[k]
       /\ shadow[k] # None
  /\ \E k \in DOMAIN key_dir : key_dir[k].file_id = cur_id - 1

\* a step of put(k, v)
PutStep == clock' # clock /\ last'.op = "put"

\* C12: rotation trigger. A put(k, v) rotates exactly when 16 + |k| + |v| +
\* the length of the active file >= threshold. When it rotates the active id
\* grows by one, the old active file is left as it was, and the new file holds
\* the record alone, with tracked length and running offset counted from zero;
\* when it does not, the record is appended to the active file.
C12_RotationTrigger ==
  [][PutStep =>
       LET k == last'.key
           v == shadow'[k].val
           rec == HeaderSize + Len(k) + Len(v)
           rotate == rec + Len(files[cur_id]) >= max_file_size_threshold
       IN /\ rotate <=> cur_id' = cur_id + 1
          /\ ~rotate <=> cur_id' = cur_id
          /\ rotate =>
               /\ files'[cur_id] = files[cur_id]
               /\ files'[cur_id'] = to_db_entry(U32At(files'[cur_id'], 0), clock, k, v)
               /\ writer' = [last_val_offset |-> rec, cur_file_size |-> rec]
               /\ key_dir'[k].val_pos = HeaderSize + Len(k)
          /\ ~rotate =>
               /\ Len(files'[cur_id]) = Len(files[cur_id]) + rec
               /\ writer'.cur_file_size = Len(files[cur_id]) + rec
               /\ key_dir'[k].val_pos = Len(files[cur_id]) + HeaderSize + Len(k)
          /\ key_dir'[k].file_id = cur_id']_vars

\* reached: tests::test_split_file. Threshold 60, three puts of 24-byte
\* records: two in file 0, the third in file 1, the first still read back
C12_Witness ==
  /\ max_file_size_threshold = 60
  /\ puts_only
  /\ clock = 3
  /\ cur_id = 1
  /\ Len(files[0]) = 48
  /\ Len(files[1]) = 24
  /\ Cardinality(DOMAIN key_dir) = 3
  /\ \A k \in DOMAIN key_dir : GetValue(k) = shadow[k]

\* the active id is the highest numeric file name of the cask
ActiveIsMax == cur_id \in DOMAIN files /\ \A f \in DOMAIN files : f <= cur_id

\* a step that appends a record (a put, or a del of a key that is present)
WriteStep == clock' # clock

\* C13: active file identity. A fresh namespace opens with active id 0, an
\* empty file 0 and an empty key directory; a reopen takes the highest numeric
\* file name as active id and that file's length as tracked length; after
\* every step the active id is the highest numeric file name; and a put or del
\* changes no file but the one that is active after it, which it extends.
C13_ActiveFile ==
  /\ (cur_id = 0 /\ files = [f \in {0} |-> <<>>] /\ key_dir = EmptyKeyDir
        /\ writer.cur_file_size = 0)
  /\ [][/\ ActiveIsMax'
        /\ ReopenStep =>
             /\ cur_id' \in DOMAIN files
             /\ \A f \in DOMAIN files : f <= cur_id'
             /\ writer'.cur_file_size = Len(files[cur_id'])
        /\ WriteStep =>
             /\ \A f \in DOMAIN files :
                  f # cur_id' => f \in DOMAIN files' /\ files'[f] = files[f]
             /\ cur_id' \in DOMAIN files =>
                  /\ Len(files'[cur_id']) > Len(files[cur_id'])
                  /\ SubSeq(files'[cur_id'], 1, Len(files[cur_id'])) = files[cur_id']]_vars

\* reached: a cask of two or more files was reopened and the next put was
\* appended behind the record the highest file already held
C13_Witness ==
  /\ opens = 1
  /\ last.op = "put"
  /\ cur_id >= 1
  /\ Cardinality(DOMAIN files) >= 2
  /\ ActiveIsMax
  /\ Len(DataFileIter(files[cur_id], 0, ZeroBuf(HeaderSize))) = 2

\* the number of records of the active file
ActiveRecords == Len(DataFileIter(files[cur_id], 0, ZeroBuf(HeaderSize)))

\* C14: active length bound. For an engine that keeps its threshold, in every
\* state the active file is shorter than the threshold unless it holds a
\* single record: the threshold is passed by at most the one record that
\* opened the file.
C14_ActiveLengthBound ==
  Len(files[cur_id]) < max_file_size_threshold \/ ActiveRecords = 1

\* reached: threshold 40, after a rotation, the active file holds two records
\* of 18 bytes and a third would not fit
C14_Witness ==
  /\ max_file_size_threshold = 40
  /\ cur_id >= 1
  /\ last.op \in {"put", "del"}
  /\ ActiveRecords = 2
  /\ Len(files[cur_id]) = 36

\* C15: read-your-write within a process. While the engine has not been
\* reopened, a key whose latest completed write is a put of v, with no write
\* to it since, reads back as v from any later get.
C15_ReadYourWrite ==
  opens = 0 =>
    \A k \in Keys :
      shadow[k].kind = "some" => GetValue(k) = shadow[k]

\* C16: no torn reads. A get(k) that has returned gave either the value k had
\* when the get was called or the outcome of a put or del of k that was in
\* progress during the get: never an error, a partial value or other bytes.
C16_NoTornReads ==
  \A t \in Threads :
    (threads[t].op = "get" /\ threads[t].pc = "idle") =>
      threads[t].result \in threads[t].allowed

\* reached: a get of a key holding one value ran beside a put of another value
\* to the same key and returned the new value whole
C16_Witness ==
  \E t \in Threads, u \in Threads :
    /\ t # u
    /\ threads[t].op = "get" /\ threads[t].pc = "idle"
    /\ threads[u].op = "put" /\ threads[u].key = threads[t].key
    /\ threads[t].pre.kind = "some"
    /\ threads[t].result = Some(threads[u].val)
    /\ threads[t].result # threads[t].pre
    /\ threads[t].allowed = {threads[t].pre, threads[t].result}

\* a step of thread t inside get
GetStep(t) == threads'[t].pc # threads[t].pc /\ threads'[t].op = "get"

\* C17: concurrent readers. With several threads in get and one thread
\* putting, a step of a get changes no file, no key-directory entry, no writer
\* state, no handle already cached and nothing of another thread's call; and
\* a get whose key no write touched while it ran returns exactly the value
\* last stored for its key.
C17_ConcurrentReaders ==
  [][\A t \in Threads :
       GetStep(t) =>
         /\ UNCHANGED <<files, hint, temp, key_dir, cur_id, writer, buffered, mutex>>
         /\ \A u \in Threads \ {t} : threads'[u] = threads[u]
         /\ \A f \in DOMAIN file_cache :
              f \in DOMAIN file_cache' /\ file_cache'[f] = file_cache[f]
         /\ (threads'[t].pc = "idle" /\ threads'[t].allowed = {threads'[t].pre}) =>
              threads'[t].result = shadow[threads'[t].key]]_vars

\* reached: two gets of different keys stored in the same file ran beside each
\* other through the same cached handle while the writer appended a record,
\* and each returned its own key's value
C17_Witness ==
  \E t \in Callers, u \in Callers :
    /\ t # u
    /\ threads[t].op = "get" /\ threads[t].pc = "idle"
    /\ threads[u].op = "get" /\ threads[u].pc = "idle"
    /\ threads[t].key # threads[u].key
    /\ threads[t].entry.file_id = threads[u].entry.file_id
    /\ threads[t].beside /\ threads[t].raced /\ threads[u].raced
    /\ threads[t].result = Some(ValBytes(Len(threads[t].key)))
    /\ threads[u].result = Some(ValBytes(Len(threads[u].key)))
    /\ threads[WriterThread].pc # "idle"
    /\ cur_id > threads[t].entry.file_id

\* file f is a sequence of whole records: the iterator reads it to its last
\* byte without an error
WholeRecords(f) ==
  LET items == DataFileIter(files[f], 0, ZeroBuf(HeaderSize))
  IN /\ \A i \in 1..Len(items) : items[i].ok
     /\ IF items = <<>> THEN files[f] = <<>>
        ELSE items[Len(items)].val_pos + items[Len(items)].vsz = Len(files[f])

\* C18: concurrent puts are totally ordered. With several threads in put and
\* del, every file is a sequence of whole records; the records of the cask in
\* file and offset order are the writes in the order they took the writer
\* mutex, all of them but at most the one of the thread holding the mutex; and
\* the entry put_with_file_size_check handed to a put locates that put's value.
C18_PutsTotallyOrdered ==
  /\ \A f \in DOMAIN files : WholeRecords(f)
  /\ Len(CaskRecords) <= Len(lock_order)
  /\ Len(lock_order) - Len(CaskRecords) <= 1
  /\ \A i \in 1..Len(CaskRecords) :
       <<CaskRecords[i].key, CaskRecords[i].val>> = lock_order[i]
  /\ \A t \in Threads :
       (threads[t].op = "put" /\ threads[t].pc \in {"flushed", "idle"}) =>
         /\ threads[t].entry.file_id \in DOMAIN files
         /\ ReadExactAt(files[threads[t].entry.file_id], threads[t].entry.val_sz,
                        threads[t].entry.val_pos) = Some(threads[t].val)

\* reached: one thread's put has its record on disk and its entry in hand,
\* not yet installed, while the other thread's put holds the mutex with its
\* record still in the writer's buffer
C18_Witness ==
  \E t \in Threads, u \in Threads :
    /\ threads[t].op = "put" /\ threads[t].pc = "flushed"
    /\ threads[u].op = "put" /\ threads[u].pc = "written"
    /\ mutex = u
    /\ Len(lock_order) = 2
    /\ Len(CaskRecords) = 1
    /\ lock_order[1] = <<threads[t].key, threads[t].val>>
    /\ lock_order[2] = <<threads[u].key, threads[u].val>>

\* C19: merge is serialized against writers. From the start of a merge to its
\* return no step of a put or del is taken: no thread moves inside a put or
\* del, no record is appended, the active id stays, and the writer's buffer
\* stays as it is.
C19_MergeSerialized ==
  [][(merger.pc # "idle" /\ opens' = opens) =>
       /\ \A t \in Threads : threads'[t].pc = threads[t].pc
       /\ clock' = clock
       /\ cur_id' = cur_id
       /\ buffered' = buffered]_vars

\* C20: a crash before the merge rename is harmless. When the process stops
\* inside a merge that no put or del ran beside, and the cask is opened again,
\* every key that had a value when the merge started is in the key directory
\* and get returns that value.
C20_CrashBeforeRename ==
  (last.op = "crash" /\ crash_info.in_merge /\ ~crash_info.disturbed) =>
    \A k \in DOMAIN crash_info.pre :
      crash_info.pre[k].kind = "some" =>
        /\ KeyDirHasKey(key_dir, k)
        /\ GetValue(k) = crash_info.pre[k]

\* C21: merge commit order. At every point of a merge that no put or del ran
\* beside, each key that had a value when the merge started still has a
\* record with that value in some numerically named data file.
C21_RenameBeforeRemove ==
  (merger.pc # "idle" /\ ~merger.disturbed) =>
    \A k \in DOMAIN merger.pre :
      merger.pre[k].kind = "some" =>
        \E i \in 1..Len(CaskRecords) :
          CaskRecords[i].key = k /\ CaskRecords[i].val = merger.pre[k].val

\* the cache size the engine is built with: HydraDBBuilder::with_cache_size(1)
cache_size == 1

\* C25: bounded handle cache. In every state the cache of read handles holds
\* at most as many handles as the cache size the engine was built with.
C25_BoundedCache == Cardinality(DOMAIN file_cache) <= cache_size

\* C26: value offset of a put. The entry installed by put(k, v) names the
\* active id after any rotation, and its val_pos is the offset at which the
\* record starts in that file (zero after a rotation, the former length of
\* the active file otherwise) + 16 + |k|; the record lies at that start.
C26_PutValueOffset ==
  [][PutStep =>
       LET k == last'.key
           v == shadow'[k].val
           e == key_dir'[k]
           start == IF cur_id' = cur_id THEN Len(files[cur_id]) ELSE 0
       IN /\ e.file_id = cur_id'
          /\ e.val_pos = start + HeaderSize + Len(k)
          /\ e.val_sz = Len(v)
          /\ cur_id' # cur_id => e.val_pos = HeaderSize + Len(k)
          /\ SubSeq(files'[cur_id'], start + 1, Len(files'[cur_id']))
               = to_db_entry(calc_crc(clock, Len(k), Len(v), k, v), clock, k, v)
          /\ Slice(files'[cur_id'], e.val_pos, e.val_sz) = v]_vars

\* reached: a rotated file holds two records; the first has its value at
\* 16 + |k| and the one just put has it behind the first record
C26_Witness ==
  /\ last.op = "put"
  /\ cur_id >= 1
  /\ ActiveRecords = 2
  /\ KeyDirHasKey(key_dir, last.key)
  /\ key_dir[last.key].file_id = cur_id
  /\ \E k \in DOMAIN key_dir :
       /\ k # last.key
       /\ key_dir[k].file_id = cur_id
       /\ key_dir[k].val_pos = HeaderSize + Len(k)
       /\ key_dir[last.key].val_pos =
            HeaderSize + Len(k) + key_dir[k].val_sz + HeaderSize + Len(last.key)

\* the records of the file a merge left under the id below the active one
MergedRecords(fs) ==
  IF cur_id - 1 \in DOMAIN fs
  THEN DataFileIter(fs[cur_id - 1], 0, ZeroBuf(HeaderSize))
  ELSE <<>>

\* C27: merge liveness rule. After a merge on an engine with active id above
\* zero, the merged file holds exactly one record for each key whose entry
\* pointed into an immutable file, that record carries the value the entry
\* designated, and the file holds no tombstone and no record of any other
\* key.
C27_MergeLiveness ==
  [][(MergeStep /\ cur_id > 0) =>
       LET merged == MergedRecords(files')
           moved == {k \in DOMAIN key_dir : key_dir[k].file_id # cur_id}
       IN /\ \A k \in moved :
               /\ Cardinality({i \in 1..Len(merged) : merged[i].key = k}) = 1
               /\ key_dir[k].file_id \in DOMAIN files
               /\ \A i \in 1..Len(merged) :
                    merged[i].key = k =>
                      Some(merged[i].val) = ReadExactAt(files[key_dir[k].file_id],
                                                        key_dir[k].val_sz,
                                                        key_dir[k].val_pos)
          /\ \A i \in 1..Len(merged) :
               merged[i].key \in moved /\ merged[i].val # TOMBSTONE]_vars

RECURSIVE HintFileIter(_, _, _)
\* HintFileIterator::next called until it returns None: the entries it yields,
\* reading `bytes` from offset pos with the header buffer buf
HintFileIter(bytes, pos, buf) ==
  LET size == HeaderRead(bytes, pos, HintHeaderSize)
      nbuf == ReadInto(buf, bytes, pos, size)
      tstamp == U32At(nbuf, 0)
      ksz == U32At(nbuf, 4)
      vsz == U32At(nbuf, 8)
      val_pos == U64At(nbuf, 12)
      kpos == pos + size
  IN IF size = 0 THEN <<>>
     ELSE IF kpos + ksz > Len(bytes) THEN <<ErrItem>>
     ELSE <<[ok |-> TRUE, tstamp |-> tstamp, ksz |-> ksz, vsz |-> vsz,
             key |-> Slice(bytes, kpos, ksz), val_pos |-> val_pos]>>
          \o HintFileIter(bytes, kpos + ksz, nbuf)

\* the hint entries a merge step wrote: what the hint file holds behind the
\* bytes it held before the step
HintWritten(before, after) ==
  IF ~after.exists THEN <<>>
  ELSE HintFileIter(SubSeq(after.bytes, Len(before.bytes) + 1, Len(after.bytes)),
                    0, ZeroBuf(HintHeaderSize))

\* C28: merge offsets. After a merge on an engine with active id above zero,
\* the merge wrote one hint entry per record of the merged file, in the same
\* order, and the entry carries the record's key, val_sz, tstamp and the
\* offset at which the record's value lies in the file named active id - 1
\* (the lengths of the records before it + 16 + ksz); the key directory maps
\* the key of each such record to (active id - 1, val_sz, that offset, tstamp)
\* unless a later record of the merged file has the same key.
C28_MergeOffsets ==
  [][(MergeStep /\ cur_id > 0) =>
       LET merged == MergedRecords(files')
           written == HintWritten(hint, hint')
       IN /\ Len(written) = Len(merged)
          /\ \A i \in 1..Len(merged) :
               /\ written[i].ok
               /\ written[i].key = merged[i].key
               /\ written[i].vsz = merged[i].vsz
               /\ written[i].tstamp = merged[i].tstamp
               /\ written[i].val_pos = merged[i].val_pos
               /\ Slice(files'[cur_id - 1], written[i].val_pos, written[i].vsz)
                    = merged[i].val
               /\ (\A j \in (i + 1)..Len(merged) : merged[j].key # merged[i].key) =>
                    /\ KeyDirHasKey(key_dir', merged[i].key)
                    /\ key_dir'[merged[i].key] =
                         KeyDirEntry(cur_id - 1, merged[i].vsz, merged[i].val_pos,
                                     merged[i].tstamp)]_vars

\* reached: a merge copied two records; the second has its value behind the
\* first record, at an offset it did not have in the file it came from
C28_Witness ==
  /\ last.op = "merge"
  /\ cur_id > 0
  /\ hint.exists
  /\ Len(MergedRecords(files)) = 2
  /\ LET merged == MergedRecords(files)
     IN /\ merged[1].val_pos = HeaderSize + Len(merged[1].key)
        /\ merged[2].val_pos =
             HeaderSize + merged[1].ksz + merged[1].vsz + HeaderSize + merged[2].ksz
        /\ KeyDirHasKey(key_dir, merged[2].key)
        /\ key_dir[merged[2].key] =
             KeyDirEntry(cur_id - 1, merged[2].vsz, merged[2].val_pos, merged[2].tstamp)
        /\ GetValue(merged[2].key) = Some(merged[2].val)

\* C29: hint-path replay. When a cask with a hint file is opened, every hint
\* entry names a value of its key in the file with id active id - 1 (the key
\* stands right before the offset the entry gives), and every key with a
\* record in the active file ends as its last record there says: absent
\* after a tombstone, else with an entry at the active id and that record's
\* val_sz, val_pos and tstamp.
C29_HintPathReplay ==
  [][(ReopenStep /\ hint.exists) =>
       LET entries == HintFileIter(hint.bytes, 0, ZeroBuf(HintHeaderSize))
           active == DataFileIter(files'[cur_id'], 0, ZeroBuf(HeaderSize))
       IN /\ \A i \in 1..Len(entries) :
               /\ entries[i].ok
               /\ cur_id' - 1 \in DOMAIN files'
               /\ entries[i].val_pos >= entries[i].ksz
               /\ entries[i].val_pos + entries[i].vsz <= Len(files'[cur_id' - 1])
               /\ Slice(files'[cur_id' - 1], entries[i].val_pos - entries[i].ksz,
                        entries[i].ksz) = entries[i].key
          /\ \A i \in 1..Len(active) :
               (\A j \in (i + 1)..Len(active) : active[j].key # active[i].key) =>
                 IF active[i].val = TOMBSTONE
                 THEN ~KeyDirHasKey(key_dir', active[i].key)
                 ELSE /\ KeyDirHasKey(key_dir', active[i].key)
                      /\ key_dir'[active[i].key] =
                           KeyDirEntry(cur_id', active[i].vsz, active[i].val_pos,
                                       active[i].tstamp)]_vars

\* C30: hint regeneration. Right after a merge that left a hint file, the
\* hint file holds exactly one entry per record of the merged file, in the
\* same order and for the same keys and offsets, and nothing else.
C30_HintRegenerated ==
  (last.op = "merge" /\ cur_id > 0 /\ hint.exists) =>
    LET entries == HintFileIter(hint.bytes, 0, ZeroBuf(HintHeaderSize))
        merged == MergedRecords(files)
    IN /\ Len(entries) = Len(merged)
       /\ \A i \in 1..Len(entries) :
            /\ entries[i].ok
            /\ entries[i].key = merged[i].key
            /\ entries[i].val_pos = merged[i].val_pos


\* C22: a put or del whose append or flush failed returns an error: after a
\* put that returned Ok, the key directory's entry for the key names bytes
\* that are in the data file
C22_IOFailuresSurface ==
  (last.op = "put" /\ last.ret /\ KeyDirHasKey(key_dir, last.key)) =>
    LET e == key_dir[last.key]
    IN /\ e.file_id \in DOMAIN files
       /\ e.val_pos + e.val_sz <= Len(files[e.file_id])

\* the complete records of the active file that precede the record cut short
RecordsBeforeCut ==
  DataFileIter(Slice(files[crash_info.torn_file], 0, crash_info.torn_pos), 0,
               ZeroBuf(HeaderSize))

\* C24: when the active file ends in a record cut short, open succeeds, the
\* key directory reflects the last complete record of every key written to
\* that file before the cut (a tombstone leaving the key absent), and no
\* entry points at or past the cut
C24_TruncatedTailTolerated ==
  last.op = "torn" =>
    LET f == crash_info.torn_file
        recs == RecordsBeforeCut
    IN /\ last.ret
       /\ \A i \in 1..Len(recs) :
            (\A j \in (i + 1)..Len(recs) : recs[j].key # recs[i].key) =>
              IF recs[i].val = TOMBSTONE
              THEN ~KeyDirHasKey(key_dir, recs[i].key)
              ELSE /\ KeyDirHasKey(key_dir, recs[i].key)
                   /\ key_dir[recs[i].key] =
                        KeyDirEntry(f, recs[i].vsz, recs[i].val_pos, recs[i].tstamp)
       /\ \A k \in DOMAIN key_dir :
            ~(key_dir[k].file_id = f /\ key_dir[k].val_pos >= crash_info.torn_pos)

\* the active file holds a record cut short that is followed by later bytes
CutInMiddle ==
  /\ crash_info.torn_file = cur_id
  /\ cur_id \in DOMAIN files
  /\ Len(files[cur_id]) > crash_info.torn_pos + crash_info.torn_len

\* C23: opening a cask whose active file has a record cut short in the
\* middle, with records after it, returns an error
C23_CorruptionFatalAtOpen ==
  [][(opens' # opens /\ CutInMiddle') => ~last'.ret]_vars

\* C31: merge removes no input file while bytes of temp or of hint are still
\* held by the BufWriters
C31_WriteBeforeUnlink ==
  [][(merger.pc = "opened" /\ merger'.pc = "removed" /\ DOMAIN files' # DOMAIN files)
       => (merger.temp = <<>> /\ merger.hint = <<>>)]_vars

\* C32: when a put or del of the one writer completed while the merge was in
\* progress, the key directory at the return of merge holds the writer's
\* update: the key points at the put's record, whose bytes are the value, or
\* the key is absent after a del
C32_MergeRespectsWriters ==
  [][(merger.pc = "removed" /\ merger'.pc = "idle" /\ last'.op = "merge"
        /\ merger.disturbed /\ threads[1].pc = "idle"
        /\ last.op \in {"put", "del"} /\ last.ret)
       => IF last.op = "put"
          THEN /\ KeyDirHasKey(key_dir', last.key)
               /\ key_dir'[last.key] = threads[1].entry
               /\ key_dir'[last.key].file_id \in DOMAIN files'
               /\ ReadExactAt(files'[key_dir'[last.key].file_id],
                              key_dir'[last.key].val_sz, key_dir'[last.key].val_pos)
                    = Some(threads[1].val)
          ELSE ~KeyDirHasKey(key_dir', last.key)]_vars

RECURSIVE EncodeItems(_)
\* the bytes of the records an iterator yielded, one after the other
EncodeItems(items) ==
  IF items = <<>> THEN <<>>
  ELSE to_db_entry(Head(items).crc, Head(items).tstamp, Head(items).key, Head(items).val)
         \o EncodeItems(Tail(items))

\* C33: every data file made of complete records is read by DataFileIterator
\* and by OptimizedDataFileIterator as the same sequence of records, whose
\* bytes one after the other are the file, each with ksz and vsz the lengths
\* of its key and value and val_pos = record start + 16 + ksz
C33_DataFileIteration ==
  \A f \in DOMAIN files :
    LET items == DataFileIter(files[f], 0, ZeroBuf(HeaderSize))
        opt == OptimizedDataFileIter(files[f], 0, ZeroBuf(HeaderSize), NewDataFileEntry)
        start(i) == IF i = 1 THEN 0 ELSE items[i - 1].val_pos + items[i - 1].vsz
    IN /\ \A i \in 1..Len(items) :
            /\ items[i].ok
            /\ items[i].ksz = Len(items[i].key)
            /\ items[i].vsz = Len(items[i].val)
            /\ items[i].val_pos = start(i) + HeaderSize + items[i].ksz
       /\ (\A i \in 1..Len(items) : items[i].ok) => EncodeItems(items) = files[f]
       /\ Len(opt) = Len(items)
       /\ \A i \in 1..Len(opt) :
            items[i].ok =>
              opt[i] = [crc |-> items[i].crc, tstamp |-> items[i].tstamp,
                        ksz |-> items[i].ksz, vsz |-> items[i].vsz,
                        key |-> items[i].key, val |-> items[i].val,
                        val_pos |-> items[i].val_pos]

\* C34: a data file that ends inside a header is read as its complete
\* records followed by one error; no entry is built from the short header
C34_TruncationReported ==
  (/\ crash_info.torn_file = cur_id
   /\ cur_id \in DOMAIN files
   /\ crash_info.torn_len < HeaderSize
   /\ Len(files[cur_id]) = crash_info.torn_pos + crash_info.torn_len)
  => LET items == DataFileIter(files[cur_id], 0, ZeroBuf(HeaderSize))
         n == Len(RecordsBeforeCut)
     IN /\ Len(items) = n + 1
        /\ \A i \in 1..n : items[i] = RecordsBeforeCut[i]
        /\ ~items[n + 1].ok

C36_NoLiveDataRemoved ==
  \A k \in Keys :
    shadow[k].kind = "some" =>
      \E i \in 1..Len(CaskRecords) :
        CaskRecords[i].key = k /\ CaskRecords[i].val = shadow[k].val

\* C37: once no put or del is in progress, the key directory agrees, for
\* every key, with the last record of the key in file order: it points at
\* that record, or the key is absent when the record is a tombstone
C37_KeyDirFollowsFileOrder ==
  (\A t \in Threads : \A k \in MoreKeys : ~InWrite(t, k)) =>
    \A k \in Keys :
      LatestIndex(k) # 0 =>
        LET r == CaskRecords[LatestIndex(k)]
        IN IF r.val = TOMBSTONE
           THEN ~KeyDirHasKey(key_dir, k)
           ELSE /\ KeyDirHasKey(key_dir, k)
                /\ key_dir[k].file_id = r.file_id
                /\ key_dir[k].val_pos = r.val_pos

\* C38: when the cask was opened with its active file ending in a record cut
\* short, a put made afterwards is in the key directory after a further
\* reopen, with a locator that reads back its value
C38_WritesAfterTornTail ==
  [][(/\ opens' # opens
      /\ crash_info.torn_file = cur_id
      /\ crash_info.io_errors = 0
      /\ last.op = "put" /\ last.ret)
     => /\ KeyDirHasKey(key_dir', last.key)
        /\ key_dir'[last.key].file_id \in DOMAIN files'
        /\ ReadExactAt(files'[key_dir'[last.key].file_id], key_dir'[last.key].val_sz,
                       key_dir'[last.key].val_pos) = shadow[last.key]]_vars

\* C39: a put or del whose rotation fails to open the new file leaves the
\* active id, the writer state and the key directory as they were
C39_FailedRotationChangesNothing ==
  [][(last' # last /\ last'.op = "rotate_failed")
       => (cur_id' = cur_id /\ writer' = writer /\ key_dir' = key_dir)]_vars

\* C40: after open and after every put or del that returned, the writer's
\* tracked length and its running offset are equal to each other and to the
\* length of the file named by the active id
C40_WriterBookkeeping ==
  (\A t \in Threads : \A k \in MoreKeys : ~InWrite(t, k)) =>
    /\ writer.cur_file_size = writer.last_val_offset
    /\ cur_id \in DOMAIN files
    /\ writer.cur_file_size = Len(files[cur_id])
====
